---- MODULE Spec2Model ----
(***************************************************************************)
(* The AI-response normalisation layer of wrong-notebook: the OpenAI and   *)
(* Gemini provider adapters (construction, analyzeImage,                   *)
(* generateSimilarQuestion, error classification) and the JSON recovery    *)
(* pipeline they embed (extractJson, cleanJson, parseResponse), and the    *)
(* upload page that calls the analysis API (handleAnalyze, api-client),    *)
(* and the seed script that provides the admin user (prisma/seed.ts).      *)
(*                                                                         *)
(* Text is a sequence of characters; a character is a one-character        *)
(* string.  The grave accent is not a legal character of a TLA+ string,    *)
(* so the model writes it "~": "~~~" is a markdown fence.  Positions are   *)
(* 1-based and 0 stands for JavaScript's -1 ("not found").                 *)
(***************************************************************************)
EXTENDS Naturals, Sequences, FiniteSets, TLC

VARIABLES
    adapters,   \* provider -> the adapter object constructed (or the failure)
    netCalls,   \* provider -> vendor network calls issued through its adapter
    calls,      \* invocation id -> the analyzeImage / generateSimilarQuestion call
    debugLog,   \* entries appended to debug_ai_response.log
    failure,    \* the value handed to handleError (classification runs)
    thrown,     \* what reached the caller of the catch block for it
    rawText,    \* the vendor text of a response (pipeline runs)
    recovered,  \* what the operation made of rawText
    page,       \* the upload page: its React state, its alerts, its analysis runs
    seed        \* the seed script: the user table and the position of main

vars == <<adapters, netCalls, calls, debugLog, failure, thrown, rawText, recovered, page, seed>>

----------------------------------------------------------------------------
(* Strings *)

Chars(s) == [i \in 1..Len(s) |-> SubSeq(s, i, i)]

Min(S) == CHOOSE x \in S : \A y \in S : x <= y

Max(S) == CHOOSE x \in S : \A y \in S : y <= x

\* String.prototype.indexOf(pat, from): the first position >= from, 0 if none
IndexOfFrom(s, pat, from) ==
    LET I == {i \in from..(Len(s) + 1 - Len(pat)) : SubSeq(s, i, i + Len(pat) - 1) = pat}
    IN  IF I = {} THEN 0 ELSE Min(I)

IndexOf(s, pat) == IndexOfFrom(s, pat, 1)

\* String.prototype.lastIndexOf(pat)
LastIndexOf(s, pat) ==
    LET I == {i \in 1..(Len(s) + 1 - Len(pat)) : SubSeq(s, i, i + Len(pat) - 1) = pat}
    IN  IF I = {} THEN 0 ELSE Max(I)

\* String.prototype.includes(pat)
Includes(s, pat) == IndexOf(s, pat) # 0

\* String.prototype.substring(from) to the end of the string
SubstringFrom(s, from) == SubSeq(s, from, Len(s))

UpperAlpha == Chars("ABCDEFGHIJKLMNOPQRSTUVWXYZ")

LowerAlpha == Chars("abcdefghijklmnopqrstuvwxyz")

LowerChar(c) ==
    IF \E k \in 1..26 : UpperAlpha[k] = c
    THEN LowerAlpha[CHOOSE k \in 1..26 : UpperAlpha[k] = c]
    ELSE c

\* String.prototype.toLowerCase()
ToLowerCase(s) == [i \in 1..Len(s) |-> LowerChar(s[i])]

\* the characters the regular expression class \s and trim() take as white space
IsSpace(c) == c \in {" ", "\n", "\r", "\t", "\f"}

\* String.prototype.trim()
Trim(s) ==
    LET I == {i \in 1..Len(s) : ~IsSpace(s[i])}
    IN  IF I = {} THEN <<>> ELSE SubSeq(s, Min(I), Max(I))

\* the first position >= i that holds no \s character (Len(s)+1 at the end)
SkipSpace(s, i) == Min({j \in i..(Len(s) + 1) : j = Len(s) + 1 \/ ~IsSpace(s[j])})

----------------------------------------------------------------------------
(* JSON values and JSON.parse (ECMA-404 grammar).  A value is a record     *)
(* [t, v]: a string holds its decoded characters, a number its numeral, an *)
(* array its elements, an object its members [k, val] in property order.   *)

JStr(cs) == [t |-> "str", v |-> cs]

JNum(cs) == [t |-> "num", v |-> cs]

JLit(name) == [t |-> name, v |-> <<>>]

JArr(es) == [t |-> "arr", v |-> es]

JObj(ms) == [t |-> "obj", v |-> ms]

JNull == JLit("null")

Fail == [ok |-> FALSE, v |-> JNull, p |-> 0]

Ok(val, pos) == [ok |-> TRUE, v |-> val, p |-> pos]

IsJsonWs(c) == c \in {" ", "\n", "\r", "\t"}

SkipWs(s, i) == Min({j \in i..(Len(s) + 1) : j = Len(s) + 1 \/ ~IsJsonWs(s[j])})

Digits == {"0", "1", "2", "3", "4", "5", "6", "7", "8", "9"}

HexDigits == Digits \cup {"a", "b", "c", "d", "e", "f", "A", "B", "C", "D", "E", "F"}

\* the characters U+0000..U+001F that occur in the model; "\b" is written BSP
BSP == "BSP"

ControlChars == {"\n", "\r", "\t", "\f", BSP}

SimpleEscapes == {"\"", "\\", "/", "b", "f", "n", "r", "t"}

Unescape(e) ==
    CASE e = "b" -> BSP
      [] e = "f" -> "\f"
      [] e = "n" -> "\n"
      [] e = "r" -> "\r"
      [] e = "t" -> "\t"
      [] OTHER -> e

\* a \uXXXX escape decodes to its code unit, kept symbolically as "\uXXXX"

\* One character of a string literal.  q = [mode, acc, hex, p]: mode "str" inside
\* the literal, "esc" after a backslash, "hex" inside \uXXXX, "done" after the
\* closing quote (p is the position after it), "fail" on a character JSON forbids.
StringStep(s, q, i) ==
    CASE q.mode = "str" ->
           (IF s[i] = "\"" THEN [q EXCEPT !.mode = "done", !.p = i + 1]
            ELSE IF s[i] = "\\" THEN [q EXCEPT !.mode = "esc"]
            ELSE IF s[i] \in ControlChars THEN [q EXCEPT !.mode = "fail"]
            ELSE [q EXCEPT !.acc = Append(@, s[i])])
      [] q.mode = "esc" ->
           (IF s[i] \in SimpleEscapes
            THEN [q EXCEPT !.mode = "str", !.acc = Append(@, Unescape(s[i]))]
            ELSE IF s[i] = "u" THEN [q EXCEPT !.mode = "hex", !.hex = "\\u"]
            ELSE [q EXCEPT !.mode = "fail"])
      [] q.mode = "hex" ->
           (IF s[i] \notin HexDigits THEN [q EXCEPT !.mode = "fail"]
            ELSE IF Len(q.hex) = 5
            THEN [q EXCEPT !.mode = "str", !.acc = Append(@, q.hex \o s[i]), !.hex = ""]
            ELSE [q EXCEPT !.hex = @ \o s[i]])
      [] OTHER -> q

RECURSIVE StringRun(_, _, _, _)
\* StringStep over the positions a..b, left to right
StringRun(s, q, a, b) ==
    IF a > b \/ q.mode \in {"done", "fail"} THEN q
    ELSE IF a = b THEN StringStep(s, q, a)
    ELSE StringRun(s, StringRun(s, q, a, (a + b) \div 2), (a + b) \div 2 + 1, b)

\* s[i] follows the opening quote of a string literal
ParseStringBody(s, i) ==
    LET Literal(q) == IF q.mode = "done" THEN Ok(JStr(q.acc), q.p) ELSE Fail
    IN  Literal(StringRun(s, [mode |-> "str", acc |-> <<>>, hex |-> "", p |-> 0], i, Len(s)))

DigitsEnd(s, i) == Min({j \in i..(Len(s) + 1) : j = Len(s) + 1 \/ s[j] \notin Digits})

At(s, i) == IF i >= 1 /\ i <= Len(s) THEN s[i] ELSE "EOF"

ParseNumber(s, i) ==
    LET Numeral(a, b, c, e, d) ==
            IF b = a \/ (At(s, b) = "." /\ c = b + 1) \/ (e # c /\ d = e) THEN Fail
            ELSE Ok(JNum(SubSeq(s, i, d - 1)), d)
        AfterExponent(a, b, c, e) == Numeral(a, b, c, e, IF e = c THEN c ELSE DigitsEnd(s, e))
        AfterFraction(a, b, c) ==
            AfterExponent(a, b, c, IF At(s, c) \in {"e", "E"}
                                   THEN (IF At(s, c + 1) \in {"+", "-"} THEN c + 2 ELSE c + 1)
                                   ELSE c)
        AfterInteger(a, b) ==
            AfterFraction(a, b, IF At(s, b) = "." THEN DigitsEnd(s, b + 1) ELSE b)
        AfterSign(a) == AfterInteger(a, IF At(s, a) = "0" THEN a + 1 ELSE DigitsEnd(s, a))
    IN  AfterSign(IF At(s, i) = "-" THEN i + 1 ELSE i)

MatchesAt(s, i, pat) == i + Len(pat) - 1 <= Len(s) /\ SubSeq(s, i, i + Len(pat) - 1) = pat

\* a property assigned twice keeps its first position and its last value
PutMember(ms, k, val) ==
    IF \E j \in 1..Len(ms) : ms[j].k = k
    THEN [j \in 1..Len(ms) |-> IF ms[j].k = k THEN [k |-> k, val |-> val] ELSE ms[j]]
    ELSE Append(ms, [k |-> k, val |-> val])

RECURSIVE ParseValue(_, _)
RECURSIVE ParseElements(_, _, _)
RECURSIVE ParseMembers(_, _, _)

\* s[i] starts an element of an array; acc holds the elements before it
ParseElements(s, i, acc) ==
    LET After(r, j) ==
            IF ~r.ok THEN Fail
            ELSE IF At(s, j) = "]" THEN Ok(JArr(Append(acc, r.v)), j + 1)
            ELSE IF At(s, j) = "," THEN ParseElements(s, SkipWs(s, j + 1), Append(acc, r.v))
            ELSE Fail
        Element(r) == After(r, SkipWs(s, r.p))
    IN  Element(ParseValue(s, i))

\* s[i] starts a member of an object; acc holds the members before it
ParseMembers(s, i, acc) ==
    LET After(k, r, j) ==
            IF ~r.ok THEN Fail
            ELSE IF At(s, j) = "}" THEN Ok(JObj(PutMember(acc, k.v.v, r.v)), j + 1)
            ELSE IF At(s, j) = ","
                 THEN ParseMembers(s, SkipWs(s, j + 1), PutMember(acc, k.v.v, r.v))
            ELSE Fail
        Member(k, r) == After(k, r, SkipWs(s, r.p))
        Colon(k, c) ==
            Member(k, IF k.ok /\ At(s, c) = ":" THEN ParseValue(s, SkipWs(s, c + 1)) ELSE Fail)
        Key(k) == Colon(k, SkipWs(s, k.p))
    IN  Key(IF At(s, i) = "\"" THEN ParseStringBody(s, i + 1) ELSE Fail)

ParseValue(s, i) ==
    LET c == At(s, i)
    IN  CASE c = "{" ->
               (LET j == SkipWs(s, i + 1)
                IN  IF At(s, j) = "}" THEN Ok(JObj(<<>>), j + 1) ELSE ParseMembers(s, j, <<>>))
          [] c = "[" ->
               (LET j == SkipWs(s, i + 1)
                IN  IF At(s, j) = "]" THEN Ok(JArr(<<>>), j + 1) ELSE ParseElements(s, j, <<>>))
          [] c = "\"" -> ParseStringBody(s, i + 1)
          [] c = "-" \/ c \in Digits -> ParseNumber(s, i)
          [] c = "t" /\ MatchesAt(s, i, Chars("true")) -> Ok(JLit("true"), i + 4)
          [] c = "f" /\ MatchesAt(s, i, Chars("false")) -> Ok(JLit("false"), i + 5)
          [] c = "n" /\ MatchesAt(s, i, Chars("null")) -> Ok(JNull, i + 4)
          [] OTHER -> Fail

\* JSON.parse(s): [ok |-> TRUE, v |-> value], or ok = FALSE when it throws SyntaxError
JSONParse(s) ==
    LET Whole(r) ==
            IF r.ok /\ SkipWs(s, r.p) = Len(s) + 1
            THEN [ok |-> TRUE, v |-> r.v]
            ELSE [ok |-> FALSE, v |-> JNull]
    IN  Whole(ParseValue(s, SkipWs(s, 1)))

----------------------------------------------------------------------------
(* Candidate extraction *)

Fence == Chars("~~~")

JsonTag == Chars("json")

\* the position after an opening fence at i: past the optional tag and the white space
AfterFence(s, i) ==
    LET j == IF MatchesAt(s, i + 3, JsonTag) THEN i + 7 ELSE i + 3
    IN  SkipSpace(s, j)

\* text.match(/~~~(?:json)?\s*([\s\S]*?)\s*~~~/): the leftmost fence that a later
\* fence closes; the capture runs from after the opening fence (tag and white
\* space skipped) to the first closing fence, white space before it excluded
CodeBlockMatch(s) ==
    LET Capture(k, c) ==
            SubSeq(s, k, Min({q \in k..c : \A w \in q..(c - 1) : IsSpace(s[w])}) - 1)
        Opened(k) == Capture(k, IndexOfFrom(s, Fence, k))
        Blocks(I) ==
            IF I = {} THEN [found |-> FALSE, capture |-> <<>>]
            ELSE [found |-> TRUE, capture |-> Opened(AfterFence(s, Min(I)))]
    IN  Blocks({i \in 1..Len(s) : MatchesAt(s, i, Fence) /\ IndexOfFrom(s, Fence, i + 3) # 0})

\* text.match(/~~~(?:json)?\s*([\s\S]*)/): an opening fence with no closing one
StartMatch(s) ==
    LET i == IndexOf(s, Fence)
    IN  IF i = 0 THEN [found |-> FALSE, capture |-> <<>>]
        ELSE [found |-> TRUE, capture |-> SubstringFrom(s, AfterFence(s, i))]

OpenAIExtractJson(text) ==
    LET Braces(jsonString, firstOpen, lastClose) ==
            IF firstOpen # 0 /\ lastClose # 0 /\ lastClose > firstOpen
            THEN SubSeq(jsonString, firstOpen, lastClose)
            ELSE IF firstOpen # 0 THEN SubstringFrom(jsonString, firstOpen)
            ELSE jsonString
        Candidate(jsonString) ==
            Braces(jsonString, IndexOf(jsonString, <<"{">>), LastIndexOf(jsonString, <<"}">>))
        Truncated(trimmed, startMatch) ==
            Candidate(IF startMatch.found THEN Trim(startMatch.capture) ELSE trimmed)
        Block(trimmed, codeBlockMatch) ==
            IF codeBlockMatch.found THEN Trim(codeBlockMatch.capture)
            ELSE Truncated(trimmed, StartMatch(trimmed))
        Trimmed(trimmed) == Block(trimmed, CodeBlockMatch(trimmed))
    IN  Trimmed(Trim(text))

\* the loop body counting every brace, also those inside quoted strings
BraceStep_CountsInStrings(text, q, i) ==
    IF text[i] = "{" THEN [q EXCEPT !.braceCount = @ + 1]
    ELSE IF text[i] = "}"
         THEN (IF q.braceCount - 1 = 0
               THEN [q EXCEPT !.braceCount = 0, !.closingIndex = i]
               ELSE [q EXCEPT !.braceCount = @ - 1])
    ELSE q

\* the body of the loop of GeminiProvider.extractJson at position i;
\* q = [braceCount, inString, escapeNext, closingIndex]
BraceStep(text, q, i) ==
    IF q.escapeNext THEN [q EXCEPT !.escapeNext = FALSE]
    ELSE IF text[i] = "\\" THEN [q EXCEPT !.escapeNext = TRUE]
    ELSE IF text[i] = "\"" /\ ~q.escapeNext THEN [q EXCEPT !.inString = ~@]
    ELSE IF ~q.inString /\ text[i] = "{" THEN [q EXCEPT !.braceCount = @ + 1]
    ELSE IF ~q.inString /\ text[i] = "}"
         THEN (IF q.braceCount - 1 = 0
               THEN [q EXCEPT !.braceCount = 0, !.closingIndex = i]
               ELSE [q EXCEPT !.braceCount = @ - 1])
    ELSE q

RECURSIVE BraceRun(_, _, _, _)
\* the loop over the positions a..b, left to right, until its break
BraceRun(text, q, a, b) ==
    IF a > b \/ q.closingIndex # 0 THEN q
    ELSE IF a = b THEN BraceStep(text, q, a)
    ELSE BraceRun(text, BraceRun(text, q, a, (a + b) \div 2), (a + b) \div 2 + 1, b)

\* for (let i = firstOpen; i < text.length; i++): closingIndex, 0 when none
MatchingBrace(text, firstOpen) ==
    BraceRun(text, [braceCount |-> 0, inString |-> FALSE, escapeNext |-> FALSE,
                    closingIndex |-> 0], firstOpen, Len(text)).closingIndex

\* extractJson that looks for the matching braces inside the fenced block too
GeminiExtractJson_ScansBlock(text) ==
    LET Matched(jsonString, firstOpen, closingIndex, lastClose) ==
            IF closingIndex # 0 THEN SubSeq(jsonString, firstOpen, closingIndex)
            ELSE IF lastClose # 0 /\ lastClose > firstOpen
            THEN SubSeq(jsonString, firstOpen, lastClose)
            ELSE jsonString
        Braces(jsonString, firstOpen) ==
            IF firstOpen = 0 THEN jsonString
            ELSE Matched(jsonString, firstOpen, MatchingBrace(jsonString, firstOpen),
                         LastIndexOf(jsonString, <<"}">>))
        Scanned(jsonString) == Braces(jsonString, IndexOf(jsonString, <<"{">>))
        Block(codeBlockMatch) ==
            Scanned(IF codeBlockMatch.found THEN Trim(codeBlockMatch.capture) ELSE text)
    IN  Block(CodeBlockMatch(text))

GeminiExtractJson(text) ==
    LET Matched(firstOpen, closingIndex, lastClose) ==
            IF closingIndex # 0 THEN SubSeq(text, firstOpen, closingIndex)
            ELSE IF lastClose # 0 /\ lastClose > firstOpen THEN SubSeq(text, firstOpen, lastClose)
            ELSE text
        Braces(firstOpen) ==
            IF firstOpen = 0 THEN text
            ELSE Matched(firstOpen, MatchingBrace(text, firstOpen), LastIndexOf(text, <<"}">>))
        Block(codeBlockMatch) ==
            IF codeBlockMatch.found THEN Trim(codeBlockMatch.capture)
            ELSE Braces(IndexOf(text, <<"{">>))
    IN  Block(CodeBlockMatch(text))

extractJson(provider, text) ==
    IF provider = "openai" THEN OpenAIExtractJson(text) ELSE GeminiExtractJson(text)

----------------------------------------------------------------------------
(* Manual escape normalisation *)

\* match.replace(/\n/g, "\\n").replace(/\r/g, "") of one character of a match
EscapeNewline(c) ==
    IF c = "\n" THEN <<"\\", "n">> ELSE IF c = "\r" THEN <<>> ELSE <<c>>

\* One character of text.replace(/"((?:[^"\\]|\\.)*)"/g, ...).  q = [mode, out, raw,
\* new]: out is the output so far; in a literal ("in", or "esc" after a backslash)
\* raw is the literal as read and new its replacement.  The closing quote commits
\* new; a backslash before a line terminator ("." does not match one) ends the
\* attempt: no literal starting before it can match, and raw is kept.
CleanStep(s, q, i) ==
    CASE q.mode = "out" ->
           (IF s[i] = "\"" THEN [q EXCEPT !.mode = "in", !.raw = <<s[i]>>, !.new = <<s[i]>>]
            ELSE [q EXCEPT !.out = Append(@, s[i])])
      [] q.mode = "in" ->
           (IF s[i] = "\""
            THEN [mode |-> "out", out |-> q.out \o Append(q.new, s[i]), raw |-> <<>>, new |-> <<>>]
            ELSE IF s[i] = "\\" THEN [q EXCEPT !.mode = "esc", !.raw = Append(@, s[i]),
                                               !.new = Append(@, s[i])]
            ELSE [q EXCEPT !.raw = Append(@, s[i]), !.new = @ \o EscapeNewline(s[i])])
      [] OTHER ->
           (IF s[i] \in {"\n", "\r"}
            THEN [mode |-> "out", out |-> q.out \o Append(q.raw, s[i]), raw |-> <<>>, new |-> <<>>]
            ELSE [q EXCEPT !.mode = "in", !.raw = Append(@, s[i]), !.new = Append(@, s[i])])

RECURSIVE CleanRun(_, _, _, _)
CleanRun(s, q, a, b) ==
    IF a > b THEN q
    ELSE IF a = b THEN CleanStep(s, q, a)
    ELSE CleanRun(s, CleanRun(s, q, a, (a + b) \div 2), (a + b) \div 2 + 1, b)

\* a literal still open at the end of the text did not match: it stays as read
cleanJson(text) ==
    LET Result(q) == q.out \o q.raw
    IN  Result(CleanRun(text, [mode |-> "out", out |-> <<>>, raw |-> <<>>, new |-> <<>>],
                        1, Len(text)))

IsHex4(s, i) == i + 3 <= Len(s) /\ \A k \in i..(i + 3) : s[k] \in HexDigits

\* the lookahead of /\\(?!(["\\/bfnrt]|u[0-9a-fA-F]{4}))/ at the backslash s[i]
ValidEscapeFollows(s, i) ==
    \/ At(s, i + 1) \in SimpleEscapes
    \/ At(s, i + 1) = "u" /\ IsHex4(s, i + 2)

RECURSIVE EscapeBackslashesIn(_, _, _)
\* the replacement over the positions a..b: each backslash is judged on its own
EscapeBackslashesIn(s, a, b) ==
    IF a > b THEN <<>>
    ELSE IF a = b
         THEN (IF s[a] = "\\" /\ ~ValidEscapeFollows(s, a) THEN <<"\\", "\\">> ELSE <<s[a]>>)
    ELSE EscapeBackslashesIn(s, a, (a + b) \div 2) \o EscapeBackslashesIn(s, (a + b) \div 2 + 1, b)

\* fixedJson.replace(/\\(?!(["\\/bfnrt]|u[0-9a-fA-F]{4}))/g, '\\\\')
EscapeBackslashes(s) == EscapeBackslashesIn(s, 1, Len(s))

----------------------------------------------------------------------------
(* Errors.  A thrown value is [isError, message]: an Error object with its *)
(* message, or (isError = FALSE) a value that is no Error, message being   *)
(* the text it would print as.                                             *)

Error(msg) == [isError |-> TRUE, message |-> msg]

NonError(msg) == [isError |-> FALSE, message |-> msg]

NoError == Error(<<>>)

AI_CONNECTION_FAILED == Chars("AI_CONNECTION_FAILED")

AI_RESPONSE_ERROR == Chars("AI_RESPONSE_ERROR")

AI_AUTH_ERROR == Chars("AI_AUTH_ERROR")

AI_UNKNOWN_ERROR == Chars("AI_UNKNOWN_ERROR")

EmptyResponseMessage == Chars("Empty response from AI")

InvalidJsonMessage == Chars("Invalid JSON response from AI")

OpenAIKeyMessage == Chars("OPENAI_API_KEY is required for OpenAI provider")

GeminiKeyMessage == Chars("GOOGLE_API_KEY is required for Gemini provider")

Returned == [threw |-> FALSE, error |-> NoError]

Throw(e) == [threw |-> TRUE, error |-> e]

\* handleError without its final throw: an unmatched failure makes it return
OpenAIHandleError_NoFinalThrow(error) ==
    LET msg == ToLowerCase(error.message)
    IN  IF error.isError /\ (\/ Includes(msg, Chars("fetch failed"))
                             \/ Includes(msg, Chars("network"))
                             \/ Includes(msg, Chars("connect")))
        THEN Throw(Error(AI_CONNECTION_FAILED))
        ELSE IF error.isError /\ (\/ Includes(msg, Chars("invalid json"))
                                  \/ Includes(msg, Chars("parse")))
        THEN Throw(Error(AI_RESPONSE_ERROR))
        ELSE IF error.isError /\ (\/ Includes(msg, Chars("api key"))
                                  \/ Includes(msg, Chars("unauthorized"))
                                  \/ Includes(msg, Chars("401")))
        THEN Throw(Error(AI_AUTH_ERROR))
        ELSE Returned

\* handleError testing the auth keywords before the connection keywords
OpenAIHandleError_AuthFirst(error) ==
    LET msg == ToLowerCase(error.message)
    IN  IF error.isError /\ (\/ Includes(msg, Chars("api key"))
                             \/ Includes(msg, Chars("unauthorized"))
                             \/ Includes(msg, Chars("401")))
        THEN Throw(Error(AI_AUTH_ERROR))
        ELSE IF error.isError /\ (\/ Includes(msg, Chars("fetch failed"))
                                  \/ Includes(msg, Chars("network"))
                                  \/ Includes(msg, Chars("connect")))
        THEN Throw(Error(AI_CONNECTION_FAILED))
        ELSE IF error.isError /\ (\/ Includes(msg, Chars("invalid json"))
                                  \/ Includes(msg, Chars("parse")))
        THEN Throw(Error(AI_RESPONSE_ERROR))
        ELSE Throw(Error(AI_UNKNOWN_ERROR))

\* OpenAIProvider.handleError: what it throws (it never returns normally)
OpenAIHandleError(error) ==
    LET msg == ToLowerCase(error.message)
    IN  IF error.isError /\ (\/ Includes(msg, Chars("fetch failed"))
                             \/ Includes(msg, Chars("network"))
                             \/ Includes(msg, Chars("connect")))
        THEN Throw(Error(AI_CONNECTION_FAILED))
        ELSE IF error.isError /\ (\/ Includes(msg, Chars("invalid json"))
                                  \/ Includes(msg, Chars("parse")))
        THEN Throw(Error(AI_RESPONSE_ERROR))
        ELSE IF error.isError /\ (\/ Includes(msg, Chars("api key"))
                                  \/ Includes(msg, Chars("unauthorized"))
                                  \/ Includes(msg, Chars("401")))
        THEN Throw(Error(AI_AUTH_ERROR))
        ELSE Throw(Error(AI_UNKNOWN_ERROR))

\* handleError testing the JSON/parse keywords before the connection keywords
GeminiHandleError_ParseFirst(error) ==
    LET msg == ToLowerCase(error.message)
    IN  IF error.isError /\ (\/ Includes(msg, Chars("invalid json"))
                             \/ Includes(msg, Chars("parse")))
        THEN Throw(Error(AI_RESPONSE_ERROR))
        ELSE IF error.isError /\ (\/ Includes(msg, Chars("fetch failed"))
                                  \/ Includes(msg, Chars("network"))
                                  \/ Includes(msg, Chars("connect")))
        THEN Throw(Error(AI_CONNECTION_FAILED))
        ELSE IF error.isError /\ (\/ Includes(msg, Chars("api key"))
                                  \/ Includes(msg, Chars("unauthorized"))
                                  \/ Includes(msg, Chars("401")))
        THEN Throw(Error(AI_AUTH_ERROR))
        ELSE Throw(Error(AI_UNKNOWN_ERROR))

\* GeminiProvider.handleError
GeminiHandleError(error) ==
    LET msg == ToLowerCase(error.message)
    IN  IF error.isError /\ (\/ Includes(msg, Chars("fetch failed"))
                             \/ Includes(msg, Chars("network"))
                             \/ Includes(msg, Chars("connect")))
        THEN Throw(Error(AI_CONNECTION_FAILED))
        ELSE IF error.isError /\ (\/ Includes(msg, Chars("invalid json"))
                                  \/ Includes(msg, Chars("parse")))
        THEN Throw(Error(AI_RESPONSE_ERROR))
        ELSE IF error.isError /\ (\/ Includes(msg, Chars("api key"))
                                  \/ Includes(msg, Chars("unauthorized"))
                                  \/ Includes(msg, Chars("401")))
        THEN Throw(Error(AI_AUTH_ERROR))
        ELSE Throw(Error(AI_UNKNOWN_ERROR))

handleError(provider, error) ==
    IF provider = "openai" THEN OpenAIHandleError(error) ELSE GeminiHandleError(error)

\* catch (error) { this.handleError(error); throw error; }: what reaches the caller
CatchBlock(provider, error) ==
    LET Caller(h) == IF h.threw THEN h.error ELSE error
    IN  Caller(handleError(provider, error))

----------------------------------------------------------------------------
(* The recovery pipeline *)

\* jsonrepair is a third-party routine: for a candidate it either throws or
\* returns a repaired text.  The model lets it take any of these outcomes.
RepairOutcomes == {"throws", "closeBrace", "closeQuoteBrace", "quoteText"}

jsonrepair(jsonString, outcome) ==
    CASE outcome = "closeBrace" -> [threw |-> FALSE, text |-> jsonString \o <<"}">>]
      [] outcome = "closeQuoteBrace" -> [threw |-> FALSE, text |-> jsonString \o <<"\"", "}">>]
      [] outcome = "quoteText" -> [threw |-> FALSE, text |-> <<"\"">> \o jsonString \o <<"\"">>]
      [] OTHER -> [threw |-> TRUE, text |-> <<>>]

Parsed(val, stageList, cand) ==
    [ok |-> TRUE, v |-> val, error |-> NoError, stages |-> stageList,
     candidate |-> cand, logged |-> FALSE]

ParseFailed(err, stageList, cand, log) ==
    [ok |-> FALSE, v |-> JNull, error |-> err, stages |-> stageList,
     candidate |-> cand, logged |-> log]

\* parseResponse rethrowing the last parser error instead of its own
OpenAIParseResponse_RethrowsParserError(text, repair, finalError) ==
    LET Manual(jsonString, third) ==
            IF third.ok THEN Parsed(third.v, <<"direct", "repair", "manual">>, jsonString)
            ELSE ParseFailed(finalError, <<"direct", "repair", "manual">>, jsonString, TRUE)
        Second(jsonString, second) ==
            IF second.ok THEN Parsed(second.v, <<"direct", "repair">>, jsonString)
            ELSE Manual(jsonString, JSONParse(EscapeBackslashes(cleanJson(jsonString))))
        Repair(jsonString, repaired) ==
            Second(jsonString, IF repaired.threw THEN [ok |-> FALSE, v |-> JNull]
                               ELSE JSONParse(repaired.text))
        Direct(jsonString, direct) ==
            IF direct.ok THEN Parsed(direct.v, <<"direct">>, jsonString)
            ELSE Repair(jsonString, jsonrepair(jsonString, repair))
        Candidate(jsonString) == Direct(jsonString, JSONParse(jsonString))
    IN  Candidate(OpenAIExtractJson(text))

\* parseResponse trying the manual normalisation before jsonrepair
OpenAIParseResponse_ManualBeforeRepair(text, repair, finalError) ==
    LET Second(jsonString, second) ==
            IF second.ok THEN Parsed(second.v, <<"direct", "manual", "repair">>, jsonString)
            ELSE ParseFailed(Error(InvalidJsonMessage), <<"direct", "manual", "repair">>,
                             jsonString, TRUE)
        Repair(jsonString, repaired) ==
            Second(jsonString, IF repaired.threw THEN [ok |-> FALSE, v |-> JNull]
                               ELSE JSONParse(repaired.text))
        Manual(jsonString, third) ==
            IF third.ok THEN Parsed(third.v, <<"direct", "manual">>, jsonString)
            ELSE Repair(jsonString, jsonrepair(jsonString, repair))
        Direct(jsonString, direct) ==
            IF direct.ok THEN Parsed(direct.v, <<"direct">>, jsonString)
            ELSE Manual(jsonString, JSONParse(EscapeBackslashes(cleanJson(jsonString))))
        Candidate(jsonString) == Direct(jsonString, JSONParse(jsonString))
    IN  Candidate(OpenAIExtractJson(text))

\* OpenAIProvider.parseResponse.  repair is the outcome jsonrepair takes and
\* finalError the error the last parse attempt throws.
OpenAIParseResponse(text, repair, finalError) ==
    LET Manual(jsonString, third) ==
            IF third.ok THEN Parsed(third.v, <<"direct", "repair", "manual">>, jsonString)
            ELSE ParseFailed(Error(InvalidJsonMessage), <<"direct", "repair", "manual">>,
                             jsonString, TRUE)
        Second(jsonString, second) ==
            IF second.ok THEN Parsed(second.v, <<"direct", "repair">>, jsonString)
            ELSE Manual(jsonString, JSONParse(EscapeBackslashes(cleanJson(jsonString))))
        Repair(jsonString, repaired) ==
            Second(jsonString, IF repaired.threw THEN [ok |-> FALSE, v |-> JNull]
                               ELSE JSONParse(repaired.text))
        Direct(jsonString, direct) ==
            IF direct.ok THEN Parsed(direct.v, <<"direct">>, jsonString)
            ELSE Repair(jsonString, jsonrepair(jsonString, repair))
        Candidate(jsonString) == Direct(jsonString, JSONParse(jsonString))
    IN  Candidate(OpenAIExtractJson(text))

\* GeminiProvider.parseResponse
GeminiParseResponse(text, repair, finalError) ==
    LET Second(jsonString, second) ==
            IF second.ok THEN Parsed(second.v, <<"direct", "repair">>, jsonString)
            ELSE ParseFailed(Error(InvalidJsonMessage), <<"direct", "repair">>, jsonString, FALSE)
        Repair(jsonString, repaired) ==
            Second(jsonString, IF repaired.threw THEN [ok |-> FALSE, v |-> JNull]
                               ELSE JSONParse(repaired.text))
        Direct(jsonString, direct) ==
            IF direct.ok THEN Parsed(direct.v, <<"direct">>, jsonString)
            ELSE Repair(jsonString, jsonrepair(jsonString, repair))
        Candidate(jsonString) == Direct(jsonString, JSONParse(jsonString))
    IN  Candidate(GeminiExtractJson(text))

parseResponse(provider, text, repair, finalError) ==
    IF provider = "openai" THEN OpenAIParseResponse(text, repair, finalError)
    ELSE GeminiParseResponse(text, repair, finalError)

----------------------------------------------------------------------------
(* analyzeImage / generateSimilarQuestion after the vendor call settles.   *)
(* The vendor outcome is [kind, error, text]: the call threw error, or it  *)
(* returned an envelope whose text is text ("none": an OpenAI envelope     *)
(* with no choice or a null content).                                      *)

VendorThrew(e) == [kind |-> "threw", error |-> e, text |-> <<>>]

VendorText(s) == [kind |-> "text", error |-> NoError, text |-> s]

VendorNoContent == [kind |-> "none", error |-> NoError, text |-> <<>>]

\* how an operation ends: ok with the value v, or failing with error; caught is
\* what the try block threw, entered whether parseResponse was called, stages
\* the recovery stages it attempted, logged whether it wrote the debug log
Outcome(okFlag, val, err, thrownInTry, enteredPipeline, stageList, log) ==
    [ok |-> okFlag, v |-> val, error |-> err, caught |-> thrownInTry,
     entered |-> enteredPipeline, stages |-> stageList, logged |-> log]

NotSettled == Outcome(FALSE, JNull, NoError, NoError, FALSE, <<>>, FALSE)

\* the try block from the text on, and the catch block around it
Respond(provider, vendor, repair, finalError) ==
    LET empty == Error(EmptyResponseMessage)
        Result(r) ==
            IF r.ok THEN Outcome(TRUE, r.v, NoError, NoError, TRUE, r.stages, FALSE)
            ELSE Outcome(FALSE, JNull, CatchBlock(provider, r.error), r.error, TRUE, r.stages,
                         r.logged)
        Try(text) ==
            IF text = <<>>
            THEN Outcome(FALSE, JNull, CatchBlock(provider, empty), empty, FALSE, <<>>, FALSE)
            ELSE Result(parseResponse(provider, text, repair, finalError))
    IN  IF vendor.kind = "threw"
        THEN Outcome(FALSE, JNull, CatchBlock(provider, vendor.error), vendor.error,
                     FALSE, <<>>, FALSE)
        ELSE Try(IF vendor.kind = "text" THEN vendor.text ELSE <<>>)

----------------------------------------------------------------------------
(* Construction.  An optional value is [def, s]: undefined, or the string. *)

Undefined == [def |-> FALSE, s |-> <<>>]

Some(str) == [def |-> TRUE, s |-> str]

\* !x and x || fallback on an optional string
Falsy(x) == ~x.def \/ x.s = <<>>

OrElse(x, fallback) == IF Falsy(x) THEN fallback ELSE x

Providers == {"openai", "gemini"}

NoConfig == [present |-> FALSE, apiKey |-> Undefined, model |-> Undefined, baseUrl |-> Undefined]

Unbuilt ==
    [status |-> "unbuilt", apiKey |-> Undefined, model |-> Undefined, baseUrl |-> Undefined,
     error |-> NoError]

Built(key, modelId, url) ==
    [status |-> "live", apiKey |-> key, model |-> modelId, baseUrl |-> url, error |-> NoError]

ConstructionFailed(e) ==
    [status |-> "failed", apiKey |-> Undefined, model |-> Undefined, baseUrl |-> Undefined,
     error |-> e]

\* the constructor rejecting only an undefined key, not an empty one
OpenAIConstructor_UndefinedOnly(config) ==
    LET apiKey == IF config.present THEN config.apiKey ELSE Undefined
        baseURL == IF config.present THEN config.baseUrl ELSE Undefined
        modelId == IF config.present THEN config.model ELSE Undefined
    IN  IF ~apiKey.def THEN ConstructionFailed(Error(OpenAIKeyMessage))
        ELSE Built(apiKey, OrElse(modelId, Some(Chars("gpt-4o"))), OrElse(baseURL, Undefined))

\* new OpenAIProvider(config)
OpenAIConstructor(config) ==
    LET apiKey == IF config.present THEN config.apiKey ELSE Undefined
        baseURL == IF config.present THEN config.baseUrl ELSE Undefined
        modelId == IF config.present THEN config.model ELSE Undefined
    IN  IF Falsy(apiKey) THEN ConstructionFailed(Error(OpenAIKeyMessage))
        ELSE Built(apiKey, OrElse(modelId, Some(Chars("gpt-4o"))), OrElse(baseURL, Undefined))

\* new GeminiProvider(config)
GeminiConstructor(config) ==
    LET apiKey == IF config.present THEN config.apiKey ELSE Undefined
        baseURL == IF config.present THEN config.baseUrl ELSE Undefined
        modelId == IF config.present THEN config.model ELSE Undefined
    IN  IF Falsy(apiKey) THEN ConstructionFailed(Error(GeminiKeyMessage))
        ELSE Built(apiKey, OrElse(modelId, Some(Chars("gemini-1.5-flash"))), baseURL)

Constructor(provider, config) ==
    IF provider = "openai" THEN OpenAIConstructor(config) ELSE GeminiConstructor(config)

----------------------------------------------------------------------------
(* Inputs *)

MaxCalls == 2

CallIds == 1..MaxCalls

Operations == {"analyzeImage", "generateSimilarQuestion"}

Configs ==
    {NoConfig,
     [NoConfig EXCEPT !.present = TRUE],
     [NoConfig EXCEPT !.present = TRUE, !.apiKey = Some(<<>>), !.model = Some(Chars("m1"))],
     [NoConfig EXCEPT !.present = TRUE, !.apiKey = Some(Chars("sk-1"))],
     [NoConfig EXCEPT !.present = TRUE, !.apiKey = Some(Chars("sk-1")), !.model = Some(<<>>),
                      !.baseUrl = Some(<<>>)],
     [NoConfig EXCEPT !.present = TRUE, !.apiKey = Some(Chars("sk-1")),
                      !.model = Some(Chars("m1")), !.baseUrl = Some(Chars("http://proxy"))]}

\* messages the last failing parse attempt may carry
ParserMessages ==
    {Chars("Unexpected end of JSON input"),
     Chars("Unexpected token c in JSON: cannot connect")}

SmallObject == Chars("{\"questionText\":\"Q\",\"answerText\":\"A\",\"analysis\":\"N\",\"subject\":\"S\"}")

VendorOutcomes ==
    {VendorThrew(Error(Chars("fetch failed"))),
     VendorThrew(Error(Chars("429 Too Many Requests"))),
     VendorThrew(NonError(Chars("fetch failed"))),
     VendorNoContent,
     VendorText(<<>>),
     VendorText(Chars(" \n")),
     VendorText(Chars("{\"questionText\":\"Q\"")),
     VendorText(SmallObject)}

\* what a settling vendor call can lead to: Respond over every vendor outcome,
\* every outcome of jsonrepair and every parser message
Settlements ==
    [p \in Providers |->
        {[vendor |-> v, out |-> Respond(p, v, r, Error(e))] :
            v \in {w \in VendorOutcomes : w.kind = "none" => p = "openai"},
            r \in RepairOutcomes, e \in ParserMessages}]

Idle == [st |-> "idle", provider |-> "none", op |-> "none", vendor |-> VendorNoContent,
         outcome |-> NotSettled]

Pending(provider, op) == [Idle EXCEPT !.st = "pending", !.provider = provider, !.op = op]

NotRecovered ==
    [st |-> "idle", provider |-> "none", op |-> "none", vendor |-> VendorNoContent,
     repair |-> "throws", finalError |-> NoError, candidate |-> <<>>,
     outcome |-> NotSettled]

Unclassified == [provider |-> "none", error |-> NoError]

\* the upload page before it is mounted (the runs that do not involve it)
NoPage == [mounted |-> FALSE]

\* the seed script before it is run (the runs that do not involve it)
NoSeed == [started |-> FALSE]

----------------------------------------------------------------------------
(* The adapters' life: construction, invocation, settlement *)

Init ==
    /\ adapters = [p \in Providers |-> Unbuilt]
    /\ netCalls = [p \in Providers |-> 0]
    /\ calls = [c \in CallIds |-> Idle]
    /\ debugLog = 0
    /\ failure = NoError
    /\ thrown = Unclassified
    /\ rawText = <<>>
    /\ recovered = NotRecovered
    /\ page = NoPage
    /\ seed = NoSeed

Construct(provider, config) ==
    /\ adapters[provider].status = "unbuilt"
    /\ adapters' = [adapters EXCEPT ![provider] = Constructor(provider, config)]
    /\ UNCHANGED <<netCalls, calls, debugLog, failure, thrown, rawText, recovered, page, seed>>

\* the call up to its await: the request is built and the one vendor call issued
Invoke(c, provider, op) ==
    /\ adapters[provider].status = "live"
    /\ calls[c].st = "idle"
    /\ netCalls' = [netCalls EXCEPT ![provider] = @ + 1]
    /\ calls' = [calls EXCEPT ![c] = Pending(provider, op)]
    /\ UNCHANGED <<adapters, debugLog, failure, thrown, rawText, recovered, page, seed>>

analyzeImage(c, provider) == Invoke(c, provider, "analyzeImage")

generateSimilarQuestion(c, provider) == Invoke(c, provider, "generateSimilarQuestion")

\* the settlement writing its result through a buffer shared by the adapter's
\* calls: the calls of the same adapter that are done get this result as well
Settle_SharedResult(c, settlement, written) ==
    /\ calls[c].st = "pending"
    /\ calls' = [d \in CallIds |->
                   IF d = c THEN [calls[d] EXCEPT !.st = "done", !.vendor = settlement.vendor,
                                                  !.outcome = settlement.out]
                   ELSE IF calls[d].st = "done" /\ calls[d].provider = calls[c].provider
                        THEN [calls[d] EXCEPT !.outcome = settlement.out]
                   ELSE calls[d]]
    /\ debugLog' = IF settlement.out.logged /\ written THEN debugLog + 1 ELSE debugLog
    /\ UNCHANGED <<adapters, netCalls, failure, thrown, rawText, recovered, page, seed>>

\* the settlement issuing the vendor call once more when the operation fails
Settle_RetriesOnFailure(c, settlement, written) ==
    /\ calls[c].st = "pending"
    /\ calls' = [calls EXCEPT ![c] = [@ EXCEPT !.st = "done", !.vendor = settlement.vendor,
                                               !.outcome = settlement.out]]
    /\ debugLog' = IF settlement.out.logged /\ written THEN debugLog + 1 ELSE debugLog
    /\ netCalls' = IF settlement.out.ok THEN netCalls
                   ELSE [netCalls EXCEPT ![calls[c].provider] = @ + 1]
    /\ UNCHANGED <<adapters, failure, thrown, rawText, recovered, page, seed>>

\* the vendor call settles and the rest of the operation runs; written: whether
\* the append to the debug log went through (its failure is caught and ignored)
Settle(c, settlement, written) ==
    /\ calls[c].st = "pending"
    /\ calls' = [calls EXCEPT ![c] = [@ EXCEPT !.st = "done", !.vendor = settlement.vendor,
                                               !.outcome = settlement.out]]
    /\ debugLog' = IF settlement.out.logged /\ written THEN debugLog + 1 ELSE debugLog
    /\ UNCHANGED <<adapters, netCalls, failure, thrown, rawText, recovered, page, seed>>

Next ==
    \/ \E p \in Providers, cfg \in Configs : Construct(p, cfg)
    \/ \E c \in CallIds, p \in Providers : analyzeImage(c, p)
    \/ \E c \in CallIds, p \in Providers : generateSimilarQuestion(c, p)
    \/ \E c \in CallIds, written \in BOOLEAN :
         /\ calls[c].st = "pending"
         /\ \E s \in Settlements[calls[c].provider] : Settle(c, s, written)

Spec == Init /\ [][Next]_vars

----------------------------------------------------------------------------
(* Error classification on its own: a failure is drawn and the catch block *)
(* of either adapter is run on it                                          *)

MessageFragments ==
    {<<>>, Chars("fetch failed"), Chars("Network error"), Chars("ECONNREFUSED: connect"),
     Chars("Invalid JSON"), Chars("failed to parse"), Chars("API key not valid"),
     Chars("Unauthorized"), Chars("UNAUTHORIZED"), Chars("401"), Chars("40"), Chars("1 "),
     Chars("quota exceeded"), Chars(" - ")}

Messages == {a \o b : a \in MessageFragments, b \in MessageFragments}

Failures == {Error(m) : m \in Messages} \cup {NonError(m) : m \in Messages}

InitClassify ==
    /\ adapters = [p \in Providers |-> Unbuilt]
    /\ netCalls = [p \in Providers |-> 0]
    /\ calls = [c \in CallIds |-> Idle]
    /\ debugLog = 0
    /\ failure \in Failures
    /\ thrown = Unclassified
    /\ rawText = <<>>
    /\ recovered = NotRecovered
    /\ page = NoPage
    /\ seed = NoSeed

Classify(provider) ==
    /\ thrown = Unclassified
    /\ thrown' = [provider |-> provider, error |-> CatchBlock(provider, failure)]
    /\ UNCHANGED <<adapters, netCalls, calls, debugLog, failure, rawText, recovered, page, seed>>

NextClassify == \E p \in Providers : Classify(p)

SpecClassify == InitClassify /\ [][NextClassify]_vars

----------------------------------------------------------------------------
(* The recovery pipeline on its own: a vendor text is drawn and the part   *)
(* of analyzeImage / generateSimilarQuestion that follows the vendor call  *)
(* is run on it                                                            *)

QuestionWith(analysis) ==
    Chars("{\"questionText\":\"Q\",\"answerText\":\"A\",\"analysis\":\"") \o analysis
        \o Chars("\",\"subject\":\"S\",\"knowledgePoints\":[\"k\"]}")

\* contents of the analysis string, as written in the JSON text
AnalysisTexts ==
    {Chars("N"), Chars("solve {x}"), Chars("a}b{"), Chars("see ~~~"), Chars("~~~py~~~"),
     Chars("say \\\"hi\\\""), Chars("q \\\"}\\\" {"), Chars("x = \\\\frac{1}{2}"), Chars("x = \\frac{1}{2}"),
     Chars("\\alpha"), Chars("\\\\alpha"), Chars("\\\\alpha\nl2"), Chars("l1\nl2"),
     Chars("l1\r\nl2")}

Bodies ==
    {QuestionWith(a) : a \in AnalysisTexts} \cup
    {<<>>, Chars(" \n "), Chars("{}"), Chars("42"), Chars("null"), Chars("[1,2]"),
     Chars("\"text\""), Chars("no json here"), Chars("[{\"questionText\":\"Q\"}]"),
     Chars("{\\x:1}"),
     Chars("{\"questionText\":\"Q\",\"answerText\":\"A\",\"analysis\":\"N\",\"subject\":\"S\",")
         \o Chars("\"knowledgePoints\":[\"a\",\"b\",\"c\",\"d\",\"e\",\"f\"]}"),
     Chars("{\"questionText\":\"Q\",\"answerText\":\"A"),
     Chars("{\"questionText\":\"Q\",}"),
     Chars("{\"questionText\":\"Q\"}"),
     Chars("{\"questionText\":1,\"answerText\":null,\"analysis\":[],\"subject\":{}}")}

Prefixes ==
    {<<>>, Chars("Here is the result:\n"), Chars("~~~json\n"), Chars("~~~\n"),
     Chars("note {see below}: "), Chars(" \n~~~json \n")}

Suffixes ==
    {<<>>, Chars("\n~~~"), Chars("\nDone."), Chars("\n~~~\nHope {this} helps"),
     Chars(" \n~~~ \n")}

Texts == {p \o b \o x : p \in Prefixes, b \in Bodies, x \in Suffixes}

InitPipeline ==
    /\ adapters = [p \in Providers |-> Unbuilt]
    /\ netCalls = [p \in Providers |-> 0]
    /\ calls = [c \in CallIds |-> Idle]
    /\ debugLog = 0
    /\ failure = NoError
    /\ thrown = Unclassified
    /\ rawText \in Texts
    /\ recovered = NotRecovered
    /\ page = NoPage
    /\ seed = NoSeed

Recover(provider, op, repair, finalError) ==
    /\ recovered.st = "idle"
    /\ recovered' = [st |-> "done", provider |-> provider, op |-> op,
                     vendor |-> VendorText(rawText), repair |-> repair,
                     finalError |-> finalError,
                     candidate |-> IF rawText = <<>> THEN <<>> ELSE extractJson(provider, rawText),
                     outcome |-> Respond(provider, VendorText(rawText), repair, finalError)]
    /\ UNCHANGED <<adapters, netCalls, calls, debugLog, failure, thrown, rawText, page, seed>>

NextPipeline ==
    \E p \in Providers, op \in Operations, r \in RepairOutcomes, e \in ParserMessages :
        Recover(p, op, r, Error(e))

SpecPipeline == InitPipeline /\ [][NextPipeline]_vars

----------------------------------------------------------------------------
(* The upload page (src/app/page.tsx) and the API client it calls          *)
(* (src/lib/api-client.ts).  A JavaScript value is a JSON value or         *)
(* JUndefined; an error object is [name, message, data].                    *)

JUndefined == JLit("undefined")

\* the falsy values: undefined, null, false, 0, the empty string
Truthy(val) ==
    /\ val.t \notin {"undefined", "null", "false"}
    /\ ~(val.t = "str" /\ val.v = <<>>)
    /\ ~(val.t = "num" /\ val.v \in {Chars("0"), Chars("-0")})

\* a character of a string as JSON.stringify writes it
QuoteChar(c) ==
    CASE c = "\"" -> Chars("\\\"")
      [] c = "\\" -> Chars("\\\\")
      [] c = "\n" -> Chars("\\n")
      [] c = "\r" -> Chars("\\r")
      [] c = "\t" -> Chars("\\t")
      [] c = "\f" -> Chars("\\f")
      [] c = BSP -> Chars("\\b")
      [] OTHER -> <<c>>

RECURSIVE QuoteRun(_, _, _)

\* the characters a..b of cs, each as JSON.stringify writes it
QuoteRun(cs, a, b) ==
    IF a > b THEN <<>>
    ELSE IF a = b THEN QuoteChar(cs[a])
    ELSE QuoteRun(cs, a, (a + b) \div 2) \o QuoteRun(cs, (a + b) \div 2 + 1, b)

Quote(cs) == <<"\"">> \o QuoteRun(cs, 1, Len(cs)) \o <<"\"">>

RECURSIVE JSONStringify(_)
RECURSIVE StringifyElements(_, _)
RECURSIVE StringifyMembers(_, _)

\* the elements i.. of an array, separated by commas
StringifyElements(es, i) ==
    IF i > Len(es) THEN <<>>
    ELSE (IF i > 1 THEN <<",">> ELSE <<>>) \o JSONStringify(es[i]) \o StringifyElements(es, i + 1)

\* the members i.. of an object, separated by commas
StringifyMembers(ms, i) ==
    IF i > Len(ms) THEN <<>>
    ELSE (IF i > 1 THEN <<",">> ELSE <<>>) \o Quote(ms[i].k) \o <<":">>
             \o JSONStringify(ms[i].val) \o StringifyMembers(ms, i + 1)

\* JSON.stringify(val) of a value that JSON.parse or res.text() produced
JSONStringify(val) ==
    CASE val.t = "str" -> Quote(val.v)
      [] val.t = "num" -> val.v
      [] val.t = "arr" -> <<"[">> \o StringifyElements(val.v, 1) \o <<"]">>
      [] val.t = "obj" -> <<"{">> \o StringifyMembers(val.v, 1) \o <<"}">>
      [] OTHER -> Chars(val.t)

\* new ApiError(status, statusText, data)
ApiError(status, statusText, data) ==
    [name |-> "ApiError",
     message |-> Chars("API Error: ") \o status \o <<" ">> \o statusText,
     data |-> data]

\* an error object that carries no data property
PlainError(name, message) == [name |-> name, message |-> message, data |-> JUndefined]

Resolved(val) == [threw |-> FALSE, error |-> PlainError("", <<>>), value |-> val]

Rejected(error) == [threw |-> TRUE, error |-> error, value |-> JUndefined]

\* the body of a response is a stream that can be consumed once: res.json()
\* and res.text() reject with a TypeError when an earlier call has read it.
\* A response without a body (nullBody) has no stream and reads as "".
BodyUnusable(res, reads) == ~res.nullBody /\ reads > 0

\* the calls of res.json() and res.text() a run of request makes on res
BodyReads(res) ==
    IF res.failed THEN 0
    ELSE IF ~res.ok THEN (IF JSONParse(res.body).ok THEN 1 ELSE 2)
    ELSE IF res.status = Chars("204") THEN 0
    ELSE 1

\* request(url, options) once fetch has settled.  res is what fetch did:
\* [failed, ok, status, statusText, body, nullBody], failed when fetch itself
\* rejected
request(res) ==
    LET ErrorData(parsed) ==
            IF parsed.ok THEN Rejected(ApiError(res.status, res.statusText, parsed.v))
            ELSE IF BodyUnusable(res, 1)
            THEN Rejected(PlainError("TypeError", Chars("body stream already read")))
            ELSE Rejected(ApiError(res.status, res.statusText, JStr(res.body)))
        Body(parsed) == Resolved(IF parsed.ok THEN parsed.v ELSE JObj(<<>>))
    IN  IF res.failed THEN Rejected(PlainError("TypeError", Chars("Failed to fetch")))
        ELSE IF ~res.ok THEN ErrorData(JSONParse(res.body))
        ELSE IF res.status = Chars("204") THEN Resolved(JObj(<<>>))
        ELSE Body(JSONParse(res.body))

\* val[name] for a value that is neither null nor undefined
Property(val, name) ==
    IF val.t = "obj" /\ \E j \in 1..Len(val.v) : val.v[j].k = name
    THEN val.v[CHOOSE j \in 1..Len(val.v) : val.v[j].k = name].val
    ELSE JUndefined

RECURSIVE StringOf(_)
RECURSIVE JoinElements(_, _)

\* Array.prototype.join(",") from element i on
JoinElements(es, i) ==
    IF i > Len(es) THEN <<>>
    ELSE (IF i > 1 THEN <<",">> ELSE <<>>)
             \o (IF es[i].t \in {"null", "undefined"} THEN <<>> ELSE StringOf(es[i]))
             \o JoinElements(es, i + 1)

\* the string a value is converted to where a string is expected
StringOf(val) ==
    CASE val.t \in {"str", "num"} -> val.v
      [] val.t = "arr" -> JoinElements(val.v, 1)
      [] val.t = "obj" -> Chars("[object Object]")
      [] OTHER -> Chars(val.t)

NotFound == [threw |-> FALSE, found |-> FALSE, id |-> ""]

RECURSIVE FindNotebook(_, _, _)

\* notebooks.find(n => n.name.includes(subject) || subject.includes(n.name))
\* from notebook i on, for a truthy subject; threw when subject has no
\* includes method
FindNotebook(notebooks, subject, i) ==
    IF i > Len(notebooks) THEN NotFound
    ELSE IF Includes(notebooks[i].name, StringOf(subject))
    THEN [threw |-> FALSE, found |-> TRUE, id |-> notebooks[i].id]
    ELSE IF subject.t = "str"
    THEN IF Includes(subject.v, notebooks[i].name)
         THEN [threw |-> FALSE, found |-> TRUE, id |-> notebooks[i].id]
         ELSE FindNotebook(notebooks, subject, i + 1)
    ELSE IF subject.t = "arr"
    THEN IF \E j \in 1..Len(subject.v) : subject.v[j] = JStr(notebooks[i].name)
         THEN [threw |-> FALSE, found |-> TRUE, id |-> notebooks[i].id]
         ELSE FindNotebook(notebooks, subject, i + 1)
    ELSE [threw |-> TRUE, found |-> FALSE, id |-> ""]

\* The alert texts.  The Chinese texts are written by an ASCII rendering.
AnalysisFailedMessage(language) ==
    IF language = "zh" THEN "zh: analysis failed, please retry"
    ELSE "Analysis failed, please try again"

ConnectionMessage(language) ==
    IF language = "zh" THEN "zh: cannot connect to AI service"
    ELSE "Cannot connect to AI service"

InvalidResponseMessage(language) ==
    IF language = "zh" THEN "zh: AI returned invalid response"
    ELSE "AI returned invalid response"

\* t.errors.aiAuth || (the built-in text); aiAuth is "" when the translation is missing
AuthMessage(language, aiAuth) ==
    IF aiAuth # "" THEN aiAuth
    ELSE IF language = "zh" THEN "zh: invalid API key"
    ELSE "Invalid API key"

\* error.data ? JSON.stringify(error.data) : error.message || ""
ErrorText(error) == IF Truthy(error.data) THEN JSONStringify(error.data) ELSE error.message

UserMessage_AuthFirst(errorText, language, aiAuth) ==
    IF Includes(errorText, Chars("AI_AUTH_ERROR")) THEN AuthMessage(language, aiAuth)
    ELSE IF Includes(errorText, Chars("AI_CONNECTION_FAILED")) THEN ConnectionMessage(language)
    ELSE IF Includes(errorText, Chars("AI_RESPONSE_ERROR")) THEN InvalidResponseMessage(language)
    ELSE AnalysisFailedMessage(language)

\* the message the catch block of handleAnalyze hands to alert
UserMessage(errorText, language, aiAuth) ==
    IF Includes(errorText, Chars("AI_CONNECTION_FAILED")) THEN ConnectionMessage(language)
    ELSE IF Includes(errorText, Chars("AI_RESPONSE_ERROR")) THEN InvalidResponseMessage(language)
    ELSE IF Includes(errorText, Chars("AI_AUTH_ERROR")) THEN AuthMessage(language, aiAuth)
    ELSE AnalysisFailedMessage(language)

NoErrorCaught == PlainError("", <<>>)

\* a handleAnalyze run: where it stands, the image it works on, what its
\* catch block caught and what it alerted
\* the response of a run whose post has not settled
NoResponse ==
    [failed |-> FALSE, ok |-> FALSE, status |-> <<>>, statusText |-> <<>>, body |-> <<>>,
     nullBody |-> TRUE]

StartedRun ==
    [pc |-> "compressing", response |-> NoResponse, error |-> NoErrorCaught, alerted |-> <<>>]

\* the catch block of run r without the finally block
Catch_NoFinally(p, r, error) ==
    [p EXCEPT !.alerts = Append(@, UserMessage(ErrorText(error), p.language, p.aiAuth)),
              !.runs[r] = [@ EXCEPT !.pc = "failed", !.error = error,
                               !.alerted = <<UserMessage(ErrorText(error), p.language, p.aiAuth)>>]]

\* the catch block and the finally block of run r, error having been thrown
\* in its try block; p is the page with the state updates made before the throw
Catch(p, r, error) ==
    [p EXCEPT !.alerts = Append(@, UserMessage(ErrorText(error), p.language, p.aiAuth)),
              !.runs[r] = [@ EXCEPT !.pc = "failed", !.error = error,
                               !.alerted = <<UserMessage(ErrorText(error), p.language, p.aiAuth)>>],
              !.analysisStep = "idle"]

\* the rest of the try block once the post has returned data, and the finally block
Processing(p, r, data) ==
    LET Review(q) ==
            [q EXCEPT !.parsedData = data, !.step = "review",
                      !.runs[r].pc = "review", !.analysisStep = "idle"]
        Selected(q, match) ==
            IF match.threw
            THEN Catch(q, r, PlainError("TypeError", Chars("data.subject.includes is not a function")))
            ELSE IF match.found
            THEN Review([q EXCEPT !.autoSelectedNotebookId = JStr(match.id)])
            ELSE Review(q)
        Subject(q, subject) ==
            IF Truthy(subject) THEN Selected(q, FindNotebook(q.notebooks, subject, 1))
            ELSE Review(q)
        Result(q) ==
            IF data.t \in {"null", "undefined"}
            THEN Catch(q, r, PlainError("TypeError",
                          Chars("Cannot read properties of null (reading 'subject')")))
            ELSE Subject(q, Property(data, Chars("subject")))
    IN  Result([p EXCEPT !.analysisStep = "processing", !.progress = "100"])

\* the handleAnalyze runs a behaviour starts
MaxRuns == 2

Languages == {"zh", "en"}

\* t.errors.aiAuth: the translated text, or "" when the dictionary has none
AiAuthTranslations == {"", "Invalid API key, check the settings"}

\* the language and the dictionary's aiAuth entry a page is mounted with
Locales == {<<"en", "">>, <<"zh", "zh: invalid API key, check the settings">>}

\* the handleSave calls a behaviour starts
MaxSaves == 1

\* what fetch does for POST /api/error-items
SaveResponses ==
    {[failed |-> FALSE, ok |-> TRUE, status |-> Chars("200"), statusText |-> Chars("OK"),
      body |-> Chars("{\"id\":\"e1\"}"), nullBody |-> FALSE],
     [failed |-> FALSE, ok |-> FALSE, status |-> Chars("500"),
      statusText |-> Chars("Internal Server Error"),
      body |-> Chars("{\"message\":\"Failed to save\"}"), nullBody |-> FALSE],
     [failed |-> TRUE, ok |-> FALSE, status |-> <<>>, statusText |-> <<>>, body |-> <<>>,
      nullBody |-> TRUE]}

\* what GET /api/notebooks resolves to
NotebookLists == {<<>>, <<[id |-> "n1", name |-> Chars("Math")]>>}

ErrorResponse(status, statusText, body) ==
    [failed |-> FALSE, ok |-> FALSE, status |-> Chars(status),
     statusText |-> Chars(statusText), body |-> Chars(body), nullBody |-> FALSE]

\* a response of a status that carries no body
NoBodyResponse(ok, status, statusText) ==
    [failed |-> FALSE, ok |-> ok, status |-> Chars(status),
     statusText |-> Chars(statusText), body |-> <<>>, nullBody |-> TRUE]

OkResponse(status, body) ==
    [failed |-> FALSE, ok |-> TRUE, status |-> Chars(status),
     statusText |-> Chars("OK"), body |-> Chars(body), nullBody |-> FALSE]

FetchFailed ==
    [failed |-> TRUE, ok |-> FALSE, status |-> <<>>, statusText |-> <<>>, body |-> <<>>,
     nullBody |-> TRUE]

\* what fetch does for POST /api/analyze
Responses ==
    {ErrorResponse("500", "Internal Server Error", "{\"message\":\"AI_CONNECTION_FAILED\"}"),
     ErrorResponse("500", "Internal Server Error", "{\"message\":\"AI_RESPONSE_ERROR\"}"),
     ErrorResponse("500", "Internal Server Error", "{\"message\":\"AI_AUTH_ERROR\"}"),
     ErrorResponse("500", "Internal Server Error",
                   "{\"message\":\"AI_AUTH_ERROR\",\"cause\":\"AI_CONNECTION_FAILED\"}"),
     ErrorResponse("500", "Internal Server Error", "AI_AUTH_ERROR after AI_RESPONSE_ERROR"),
     ErrorResponse("502", "Bad Gateway", ""),
     FetchFailed,
     OkResponse("200", "{\"questionText\":\"Q\",\"subject\":\"Math\"}"),
     OkResponse("200", "{\"questionText\":\"Q\",\"subject\":5}"),
     OkResponse("200", "null"),
     NoBodyResponse(FALSE, "304", "Not Modified"),
     NoBodyResponse(TRUE, "204", "No Content")}

\* how processImageFile settles: with the base64 image, or with an error
ImageOutcomes ==
    {Resolved(JStr(Chars("data:image/jpeg;base64,AA"))),
     Rejected(PlainError("Error", <<>>))}

\* HomeContent after its first render and its effects, with GET /api/notebooks
\* in flight.  progress is kept by the interval it lies in: "below 90" (0
\* included), "90 or more" (below 100), "100".  effectStep is the analysisStep
\* the progress effect last ran for, timer whether its interval is set; saves
\* are the handleSave calls, route the last router.push.
Mounted(language, aiAuth) ==
    [mounted |-> TRUE, language |-> language, aiAuth |-> aiAuth,
     step |-> "upload", analysisStep |-> "idle", progress |-> "below 90",
     effectStep |-> "idle", timer |-> FALSE,
     parsedData |-> JNull, currentImage |-> JNull,
     notebooks |-> <<>>, fetchingNotebooks |-> TRUE, autoSelectedNotebookId |-> JNull,
     croppingImage |-> JNull, isCropperOpen |-> FALSE,
     alerts |-> <<>>, runs |-> <<>>, saves |-> <<>>, route |-> JNull]

InitPage ==
    /\ adapters = [p \in Providers |-> Unbuilt]
    /\ netCalls = [p \in Providers |-> 0]
    /\ calls = [c \in CallIds |-> Idle]
    /\ debugLog = 0
    /\ failure = NoError
    /\ thrown = Unclassified
    /\ rawText = <<>>
    /\ recovered = NotRecovered
    /\ page \in {Mounted(l[1], l[2]) : l \in Locales}
    /\ seed = NoSeed

Rest == <<adapters, netCalls, calls, debugLog, failure, thrown, rawText, recovered, seed>>

\* the mount effect's GET /api/notebooks settles
NotebooksSettled(outcome) ==
    /\ page.fetchingNotebooks
    /\ page' = IF outcome.threw THEN [page EXCEPT !.fetchingNotebooks = FALSE]
               ELSE [page EXCEPT !.fetchingNotebooks = FALSE, !.notebooks = outcome.value]
    /\ UNCHANGED Rest

\* the upload zone hands over a file
onImageSelect ==
    /\ page.step = "upload"
    /\ page' = [page EXCEPT !.croppingImage = JStr(Chars("blob:1")), !.isCropperOpen = TRUE]
    /\ UNCHANGED Rest

\* the cropper is dismissed
onClose ==
    /\ page.croppingImage # JNull
    /\ page.isCropperOpen
    /\ page' = [page EXCEPT !.isCropperOpen = FALSE]
    /\ UNCHANGED Rest

\* the cropper delivers the cropped image: handleAnalyze runs up to its first await
handleCropComplete ==
    /\ page.croppingImage # JNull
    /\ page.isCropperOpen
    /\ Len(page.runs) < MaxRuns
    /\ page' = [page EXCEPT !.isCropperOpen = FALSE, !.analysisStep = "compressing",
                            !.runs = Append(@, StartedRun)]
    /\ UNCHANGED Rest

\* processImageFile settles for run r: handleAnalyze runs up to the post, or
\* through its catch and finally blocks
Compressed(r, outcome) ==
    /\ r \in 1..Len(page.runs)
    /\ page.runs[r].pc = "compressing"
    /\ page' = IF outcome.threw THEN Catch(page, r, outcome.error)
               ELSE [page EXCEPT !.currentImage = outcome.value, !.analysisStep = "analyzing",
                                 !.runs[r].pc = "analyzing"]
    /\ UNCHANGED Rest

\* the post of run r settles: handleAnalyze runs to its end
Responded(r, res) ==
    /\ r \in 1..Len(page.runs)
    /\ page.runs[r].pc = "analyzing"
    /\ LET Settled(p, result) ==
               IF result.threw THEN Catch(p, r, result.error) ELSE Processing(p, r, result.value)
       IN  page' = Settled([page EXCEPT !.runs[r].response = res], request(res))
    /\ UNCHANGED Rest

\* the progress effect after a render that changed analysisStep: the cleanup
\* of the effect before it clears its interval, then the effect runs
ProgressEffect ==
    /\ page.effectStep # page.analysisStep
    /\ page' = IF page.analysisStep # "idle"
               THEN [page EXCEPT !.effectStep = page.analysisStep, !.progress = "below 90",
                                 !.timer = TRUE]
               ELSE [page EXCEPT !.effectStep = page.analysisStep, !.timer = FALSE]
    /\ UNCHANGED Rest

\* what prev + Math.random() * 10 can be, by intervals
Risen(prev) == IF prev = "below 90" THEN {"below 90", "90 or more"} ELSE {prev}

\* the interval fires: setProgress(prev => prev >= 90 ? prev : prev + Math.random() * 10)
\* (a tick that leaves progress in its interval changes nothing)
Tick ==
    /\ page.timer
    /\ \E next \in Risen(page.progress) \ {page.progress} : page' = [page EXCEPT !.progress = next]
    /\ UNCHANGED Rest

\* the 'upload new' button
UploadNew ==
    /\ page.step # "upload"
    /\ page' = [page EXCEPT !.step = "upload"]
    /\ UNCHANGED Rest

\* the correction editor's cancel button
onCancel ==
    /\ page.step = "review"
    /\ Truthy(page.parsedData)
    /\ page' = [page EXCEPT !.step = "upload"]
    /\ UNCHANGED Rest

SavedMessage(language) == IF language = "zh" THEN "zh: saved" ELSE "Saved successfully!"

SaveFailedMessage(language) == IF language = "zh" THEN "zh: save failed" ELSE "Failed to save"

\* the correction editor's save button: handleSave runs up to its await.
\* hasSubject tells whether finalData carries a subjectId
handleSave(hasSubject) ==
    /\ page.step = "review"
    /\ Truthy(page.parsedData)
    /\ Len(page.saves) < MaxSaves
    /\ page' = [page EXCEPT !.saves = Append(@, [pc |-> "posting", hasSubject |-> hasSubject])]
    /\ UNCHANGED Rest

\* handleSave setting parsedData and currentImage to null but leaving step
SaveSettled_KeepsStep(s, res) ==
    /\ s \in 1..Len(page.saves)
    /\ page.saves[s].pc = "posting"
    /\ page' = IF request(res).threw
               THEN [page EXCEPT !.saves[s].pc = "failed",
                                 !.alerts = Append(@, SaveFailedMessage(page.language))]
               ELSE [page EXCEPT !.saves[s].pc = "saved",
                                 !.parsedData = JNull,
                                 !.currentImage = JNull,
                                 !.alerts = Append(@, SavedMessage(page.language)),
                                 !.route = IF page.saves[s].hasSubject
                                           THEN JStr(Chars("/notebooks/n1")) ELSE @]
    /\ UNCHANGED Rest

\* the post of save s settles: handleSave runs to its end
SaveSettled(s, res) ==
    /\ s \in 1..Len(page.saves)
    /\ page.saves[s].pc = "posting"
    /\ page' = IF request(res).threw
               THEN [page EXCEPT !.saves[s].pc = "failed",
                                 !.alerts = Append(@, SaveFailedMessage(page.language))]
               ELSE [page EXCEPT !.saves[s].pc = "saved",
                                 !.step = "upload", !.parsedData = JNull,
                                 !.currentImage = JNull,
                                 !.alerts = Append(@, SavedMessage(page.language)),
                                 !.route = IF page.saves[s].hasSubject
                                           THEN JStr(Chars("/notebooks/n1")) ELSE @]
    /\ UNCHANGED Rest

NextPage ==
    \/ \E ns \in NotebookLists : NotebooksSettled(Resolved(ns))
    \/ NotebooksSettled(Rejected(PlainError("TypeError", Chars("Failed to fetch"))))
    \/ onImageSelect
    \/ onClose
    \/ handleCropComplete
    \/ \E r \in 1..MaxRuns, o \in ImageOutcomes : Compressed(r, o)
    \/ \E r \in 1..MaxRuns, res \in Responses : Responded(r, res)
    \/ ProgressEffect
    \/ Tick
    \/ UploadNew
    \/ onCancel
    \/ \E hasSubject \in BOOLEAN : handleSave(hasSubject)
    \/ \E s \in 1..MaxSaves, res \in SaveResponses : SaveSettled(s, res)


SpecPage == InitPage /\ [][NextPage]_vars

\* The page where processImageFile and the posts of the analyses settle and
\* React runs the pending progress effect.  One response stands for each way
\* a run ends: a result, an ApiError, a TypeError while the result is processed.
InitPageFair == InitPage /\ page.language = "en"

SettlingResponses ==
    {res \in Responses :
        res.body \in {Chars("{\"questionText\":\"Q\",\"subject\":\"Math\"}"), Chars("null"),
                      Chars("{\"message\":\"AI_CONNECTION_FAILED\"}")}}

\* the steps of NextPage, the posts of the analyses answered from SettlingResponses
NextPageFair ==
    \/ \E ns \in NotebookLists : NotebooksSettled(Resolved(ns))
    \/ NotebooksSettled(Rejected(PlainError("TypeError", Chars("Failed to fetch"))))
    \/ onImageSelect
    \/ onClose
    \/ handleCropComplete
    \/ \E r \in 1..MaxRuns, o \in ImageOutcomes : Compressed(r, o)
    \/ \E r \in 1..MaxRuns, res \in SettlingResponses : Responded(r, res)
    \/ ProgressEffect
    \/ Tick
    \/ UploadNew
    \/ onCancel
    \/ \E hasSubject \in BOOLEAN : handleSave(hasSubject)
    \/ \E s \in 1..MaxSaves, res \in SaveResponses : SaveSettled(s, res)

\* a pending settlement or a pending progress effect happens
Settling ==
    \/ \E r \in 1..MaxRuns, o \in ImageOutcomes : Compressed(r, o)
    \/ \E r \in 1..MaxRuns, res \in Responses : Responded(r, res)
    \/ ProgressEffect

SpecPageFair == InitPageFair /\ [][NextPageFair]_vars /\ WF_vars(Settling)

----------------------------------------------------------------------------
(* The seed script: main of prisma/seed.ts over the user table *)

AdminEmail == "admin@localhost"

\* hash(password, 12) of bcryptjs draws a salt: two calls give two texts
HashedPasswords == {"$2a$12$saltA.hashOf123456", "$2a$12$saltB.hashOf123456"}

\* a row of the user table, with the columns main names
User(email, password, name, role, isActive, educationStage, enrollmentYear) ==
    [email |-> email, password |-> password, name |-> name, role |-> role,
     isActive |-> isActive, educationStage |-> educationStage,
     enrollmentYear |-> enrollmentYear]

\* the admin rows a database can hold before main runs
Admins ==
    {User(AdminEmail, password, name, role, isActive, educationStage, enrollmentYear) :
        password \in {"$2a$12$saltA.hashOf123456", "$2a$10$salt0.hashOfSecret"},
        name \in {"Admin", "Root"},
        role \in {"admin", "user"},
        isActive \in BOOLEAN,
        educationStage \in {"junior_high", "senior_high"},
        enrollmentYear \in {2025, 2023}}

\* the rows of other users
Others ==
    {User("student@localhost", "$2a$10$salt1.hashOfPupil", "Student", "user", TRUE,
          "senior_high", 2024)}

\* the user tables main can find: email is unique
UserTables ==
    {admin \cup other : admin \in {{}} \cup {{a} : a \in Admins},
                        other \in {{}} \cup {{o} : o \in Others}}

\* prisma.user.findUnique({ where: { email } })
findUnique(users, email) ==
    IF \E u \in users : u.email = email
    THEN [found |-> TRUE, user |-> CHOOSE u \in users : u.email = email]
    ELSE [found |-> FALSE]

\* prisma.user.update({ where: { email }, data }) that writes every column
\* of the row from main's constants
update_AllColumns(users, email, data) ==
    IF \E u \in users : u.email = email
    THEN [threw |-> FALSE,
          users |-> {IF u.email = email
                     THEN User(email, "$2a$12$saltA.hashOf123456", "Admin", "admin", TRUE,
                               data.educationStage, data.enrollmentYear)
                     ELSE u : u \in users}]
    ELSE [threw |-> TRUE, users |-> users]

\* prisma.user.update({ where: { email }, data: { educationStage, enrollmentYear } }):
\* the columns of data are written, the others kept; rejects without the row
update(users, email, data) ==
    IF \E u \in users : u.email = email
    THEN [threw |-> FALSE,
          users |-> {IF u.email = email
                     THEN [u EXCEPT !.educationStage = data.educationStage,
                                    !.enrollmentYear = data.enrollmentYear]
                     ELSE u : u \in users}]
    ELSE [threw |-> TRUE, users |-> users]

\* prisma.user.create({ data }): rejects when the email is taken
create(users, data) ==
    IF \E u \in users : u.email = data.email
    THEN [threw |-> TRUE, users |-> users]
    ELSE [threw |-> FALSE, users |-> users \cup {data}]

\* the sequential runs of the script a behaviour makes
MaxSeedRuns == 3

\* the script's database before the first run
Seeding(users) ==
    [started |-> TRUE, users |-> users, pc |-> "exited", existed |-> FALSE,
     hashedPassword |-> "", runs |-> <<>>]

InitSeed ==
    /\ adapters = [p \in Providers |-> Unbuilt]
    /\ netCalls = [p \in Providers |-> 0]
    /\ calls = [c \in CallIds |-> Idle]
    /\ debugLog = 0
    /\ failure = NoError
    /\ thrown = Unclassified
    /\ rawText = <<>>
    /\ recovered = NotRecovered
    /\ page = NoPage
    /\ seed \in {Seeding(users) : users \in UserTables}

NoSeedChange == <<adapters, netCalls, calls, debugLog, failure, thrown, rawText, recovered, page>>

\* the end of a run: main settled (code 0) or rejected (process.exit(1))
Exit(s, code) ==
    [s EXCEPT !.pc = "exited",
              !.runs[Len(s.runs)] = [@ EXCEPT !.after = s.users, !.code = code]]

\* the script is started: main runs up to its await of findUnique
main ==
    /\ seed.pc = "exited"
    /\ Len(seed.runs) < MaxSeedRuns
    /\ seed' = [seed EXCEPT !.pc = "findUnique",
                            !.runs = Append(@, [before |-> seed.users, after |-> {}, code |-> 0])]
    /\ UNCHANGED NoSeedChange

\* findUnique settles: main issues the update, or awaits the hash
FoundUnique ==
    /\ seed.pc = "findUnique"
    /\ LET existingUser == findUnique(seed.users, AdminEmail)
       IN  seed' = [seed EXCEPT !.existed = existingUser.found,
                                !.pc = IF existingUser.found THEN "update" ELSE "hash"]
    /\ UNCHANGED NoSeedChange

\* the update settles and main returns
Updated ==
    /\ seed.pc = "update"
    /\ LET Settled(result) ==
               Exit([seed EXCEPT !.users = result.users], IF result.threw THEN 1 ELSE 0)
       IN  seed' = Settled(update(seed.users, AdminEmail,
                                  [educationStage |-> "junior_high", enrollmentYear |-> 2025]))
    /\ UNCHANGED NoSeedChange

\* the hash settles: main issues the create
Hashed(hashedPassword) ==
    /\ seed.pc = "hash"
    /\ seed' = [seed EXCEPT !.hashedPassword = hashedPassword, !.pc = "create"]
    /\ UNCHANGED NoSeedChange

\* the create settles and main returns
Created ==
    /\ seed.pc = "create"
    /\ LET Settled(result) ==
               Exit([seed EXCEPT !.users = result.users], IF result.threw THEN 1 ELSE 0)
       IN  seed' = Settled(create(seed.users,
                                  User(AdminEmail, seed.hashedPassword, "Admin", "admin", TRUE,
                                       "junior_high", 2025)))
    /\ UNCHANGED NoSeedChange

NextSeed ==
    \/ main
    \/ FoundUnique
    \/ Updated
    \/ \E hashedPassword \in HashedPasswords : Hashed(hashedPassword)
    \/ Created

SpecSeed == InitSeed /\ [][NextSeed]_vars

----------------------------------------------------------------------------
(* Properties *)

ErrorTags == {AI_CONNECTION_FAILED, AI_RESPONSE_ERROR, AI_AUTH_ERROR, AI_UNKNOWN_ERROR}

Done(c) == calls[c].st = "done"

\* C1: whenever analyzeImage or generateSimilarQuestion of either adapter fails,
\* whatever was thrown by the vendor call, the empty-text check or the pipeline
\* (a value that is no Error included), the caller gets an Error whose message
\* is one of the four tags, never the value that was thrown.
C1_FailuresAreClassified ==
    \A c \in CallIds :
        Done(c) /\ ~calls[c].outcome.ok =>
            /\ calls[c].outcome.error.isError
            /\ calls[c].outcome.error.message \in ErrorTags
            /\ calls[c].outcome.error # calls[c].outcome.caught

C1_Witness ==
    \E c \in CallIds :
        /\ Done(c)
        /\ calls[c].vendor.kind = "threw"
        /\ ~calls[c].vendor.error.isError
        /\ calls[c].outcome.error = Error(AI_UNKNOWN_ERROR)

ConnectionKeywords == {Chars("fetch failed"), Chars("network"), Chars("connect")}

ParseKeywords == {Chars("invalid json"), Chars("parse")}

AuthKeywords == {Chars("api key"), Chars("unauthorized"), Chars("401")}

Mentions(description, keywords) == \E k \in keywords : Includes(ToLowerCase(description), k)

Classified == thrown.provider # "none"

Tag == thrown.error.message

\* C2 as stated: a description with "fetch failed" is classified
\* AI_CONNECTION_FAILED, one with "401" AI_AUTH_ERROR, one with none of the
\* keywords AI_UNKNOWN_ERROR, for every failure.
C2_Original ==
    Classified =>
        /\ Mentions(failure.message, {Chars("fetch failed")}) => Tag = AI_CONNECTION_FAILED
        /\ Mentions(failure.message, {Chars("401")}) => Tag = AI_AUTH_ERROR
        /\ ~Mentions(failure.message, ConnectionKeywords \cup ParseKeywords \cup AuthKeywords)
              => Tag = AI_UNKNOWN_ERROR

\* C2 amended: for a failure that is an Error object, a description with
\* "fetch failed" is classified AI_CONNECTION_FAILED, one with "401" and none of
\* the connection or JSON/parse keywords AI_AUTH_ERROR, one with none of the
\* keywords AI_UNKNOWN_ERROR; a thrown value that is no Error object is
\* classified AI_UNKNOWN_ERROR whatever its text.
C2_Amended ==
    Classified =>
        IF failure.isError
        THEN /\ Mentions(failure.message, {Chars("fetch failed")}) => Tag = AI_CONNECTION_FAILED
             /\ (/\ Mentions(failure.message, {Chars("401")})
                 /\ ~Mentions(failure.message, ConnectionKeywords \cup ParseKeywords))
                   => Tag = AI_AUTH_ERROR
             /\ ~Mentions(failure.message, ConnectionKeywords \cup ParseKeywords \cup AuthKeywords)
                   => Tag = AI_UNKNOWN_ERROR
        ELSE Tag = AI_UNKNOWN_ERROR

C2_Witness ==
    /\ Classified
    /\ failure.isError
    /\ Mentions(failure.message, {Chars("401")})
    /\ Mentions(failure.message, {Chars("fetch failed")})
    /\ Tag = AI_CONNECTION_FAILED

KeyMissing(config) == ~config.present \/ ~config.apiKey.def \/ config.apiKey.s = <<>>

NoInstance(p) ==
    /\ adapters[p].status = "failed"
    /\ adapters[p].error.isError
    /\ ~adapters[p].apiKey.def /\ ~adapters[p].model.def

C3_FailedMakesNoCall ==
    \A p \in Providers :
        adapters[p].status = "failed" =>
            /\ NoInstance(p)
            /\ netCalls[p] = 0
            /\ \A c \in CallIds : calls[c].provider # p

C3_ConstructionStep ==
    \A p \in Providers :
        /\ \A cfg \in Configs :
              KeyMissing(cfg) /\ Construct(p, cfg) => adapters'[p].status = "failed" /\ netCalls' = netCalls
        /\ adapters[p].status = "failed" => adapters'[p] = adapters[p] /\ netCalls'[p] = 0

\* C3: constructing either adapter with no API key (no configuration, no key,
\* an empty key) fails at once; no adapter instance comes into existence and
\* the count of vendor network calls through it is zero in every later state.
C3_MissingKeyFailsFast == []C3_FailedMakesNoCall /\ [][C3_ConstructionStep]_vars

C3_Witness ==
    /\ adapters["openai"].status = "failed"
    /\ adapters["gemini"].status = "live"
    /\ netCalls["gemini"] > 0
    /\ netCalls["openai"] = 0

RequiredFields == {Chars("questionText"), Chars("answerText"), Chars("analysis"), Chars("subject")}

\* the Structured Question shape: an object whose four text fields are strings
WellFormed(val) ==
    /\ val.t = "obj"
    /\ \A f \in RequiredFields : \E j \in 1..Len(val.v) : val.v[j].k = f /\ val.v[j].val.t = "str"

Recovered == recovered.st = "done"

\* C4: every value the recovery pipeline returns is a well-formed Structured
\* Question (questionText, answerText, analysis and subject present as strings);
\* a parsed value of another shape is never returned to the caller.
C4_ReturnsOnlyWellFormed ==
    Recovered /\ recovered.outcome.ok => WellFormed(recovered.outcome.v)

EmptyText(vendor) == vendor.kind \in {"text", "none"} /\ vendor.text = <<>>

\* C5: when the vendor returns empty text, the operation fails with the tag
\* AI_RESPONSE_ERROR.
C5_EmptyTextIsResponseError ==
    \A c \in CallIds :
        Done(c) /\ EmptyText(calls[c].vendor) =>
            ~calls[c].outcome.ok /\ calls[c].outcome.error = Error(AI_RESPONSE_ERROR)

\* C6: when the vendor text is empty or only white space, the adapter fails
\* before the recovery pipeline is invoked: parseResponse is never entered.
C6_BlankTextSkipsPipeline ==
    \A c \in CallIds :
        Done(c) /\ calls[c].vendor.kind \in {"text", "none"} /\ Trim(calls[c].vendor.text) = <<>> =>
            ~calls[c].outcome.ok /\ ~calls[c].outcome.entered

\* C7: for a vendor text with no "{" at all, the pipeline exhausts its
\* strategies and fails, and the caller sees AI_RESPONSE_ERROR; it never
\* returns a value for such a text.
C7_NoBraceFails ==
    Recovered /\ recovered.outcome.entered /\ ~Includes(rawText, <<"{">>) =>
        ~recovered.outcome.ok /\ recovered.outcome.error = Error(AI_RESPONSE_ERROR)

\* C8: when every recovery strategy has failed, the pipeline fails with its own
\* failure "Invalid JSON response from AI", not with the parser's error, and
\* the caller sees AI_RESPONSE_ERROR whatever message the parser error carried.
C8_ExhaustionIsResponseError ==
    Recovered /\ recovered.outcome.entered /\ ~recovered.outcome.ok =>
        /\ recovered.outcome.caught = Error(InvalidJsonMessage)
        /\ recovered.outcome.error = Error(AI_RESPONSE_ERROR)

C8_Witness ==
    /\ Recovered /\ recovered.provider = "openai"
    /\ ~recovered.outcome.ok
    /\ recovered.outcome.stages = <<"direct", "repair", "manual">>
    /\ Mentions(recovered.finalError.message, ConnectionKeywords)
    /\ recovered.outcome.error = Error(AI_RESPONSE_ERROR)

StageOrder(provider) ==
    IF provider = "openai" THEN <<"direct", "repair", "manual">> ELSE <<"direct", "repair">>

\* what one recovery stage makes of the candidate
StageResult(stage, candidate, repair) ==
    CASE stage = "direct" -> JSONParse(candidate)
      [] stage = "repair" ->
           (IF jsonrepair(candidate, repair).threw THEN [ok |-> FALSE, v |-> JNull]
            ELSE JSONParse(jsonrepair(candidate, repair).text))
      [] OTHER -> JSONParse(EscapeBackslashes(cleanJson(candidate)))

\* C9: the stages run in the order direct parse, jsonrepair, (OpenAI only)
\* manual escape normalisation, on the extracted candidate; a stage is attempted
\* only if every earlier one failed, the result is that of the first stage that
\* succeeds, and no stage runs after a success.
C9_StagesInOrder ==
    Recovered /\ recovered.outcome.entered =>
        LET order == StageOrder(recovered.provider)
            ran == recovered.outcome.stages
            n == Len(ran)
            candidate == extractJson(recovered.provider, rawText)
            last == StageResult(order[n], candidate, recovered.repair)
        IN  /\ n >= 1 /\ n <= Len(order) /\ ran = SubSeq(order, 1, n)
            /\ \A k \in 1..(n - 1) : ~StageResult(order[k], candidate, recovered.repair).ok
            /\ IF recovered.outcome.ok
               THEN last.ok /\ recovered.outcome.v = last.v
               ELSE n = Len(order) /\ ~last.ok

C9_Witness ==
    /\ Recovered /\ recovered.provider = "openai"
    /\ recovered.outcome.ok
    /\ recovered.outcome.stages = <<"direct", "repair">>
    /\ recovered.outcome.v = JSONParse(jsonrepair(extractJson("openai", rawText), recovered.repair).text).v

\* C10: for a text that is itself a valid JSON object matching the Structured
\* Question schema, the pipeline of either adapter returns exactly that object,
\* also when its strings hold fences, braces or escaped quotes.
C10_ValidObjectUnchanged ==
    Recovered /\ JSONParse(rawText).ok /\ WellFormed(JSONParse(rawText).v) =>
        recovered.outcome.ok /\ recovered.outcome.v = JSONParse(rawText).v


FenceOpenings == {Chars("~~~json\n"), Chars("~~~\n")}

FenceClosings == {Chars("\n~~~"), Chars("\n~~~\nHope {this} helps")}

\* the content c inside a fenced code block, tagged or not, prose after it or not
Fenced(c) == {o \o c \o x : o \in FenceOpenings, x \in FenceClosings}

SameResult(a, b) == a.ok = b.ok /\ a.v = b.v /\ a.error = b.error

\* C11: the pipeline on a content wrapped in a fenced code block gives the
\* same outcome (the same value or the same failure) as on the content itself.
C11_FenceIsTransparent ==
    Recovered =>
        \A c \in Bodies :
            rawText \in Fenced(c) =>
                SameResult(recovered.outcome,
                           Respond(recovered.provider, VendorText(c), recovered.repair,
                                   recovered.finalError))


HasFencedBlock(s) == CodeBlockMatch(s).found

\* the ends e for which text[firstOpen..e] is by itself a JSON object
ObjectEnds(s, firstOpen) ==
    {e \in firstOpen..Len(s) :
        s[e] = "}" /\ JSONParse(SubSeq(s, firstOpen, e)).ok
                   /\ JSONParse(SubSeq(s, firstOpen, e)).v.t = "obj"}

\* C12: for a text without a fenced block whose first "{" opens a well-formed
\* JSON object, GeminiProvider.extractJson returns exactly the text from that
\* "{" through its matching "}": braces inside strings and escaped quotes do
\* not mislead it, and the prose around the object is left out.
C12_GeminiExtractsMatchedObject ==
    Recovered /\ recovered.provider = "gemini" /\ ~HasFencedBlock(rawText)
              /\ IndexOf(rawText, <<"{">>) # 0 =>
        \A e \in ObjectEnds(rawText, IndexOf(rawText, <<"{">>)) :
            recovered.candidate = SubSeq(rawText, IndexOf(rawText, <<"{">>), e)

C12_Witness ==
    /\ Recovered /\ recovered.provider = "gemini" /\ ~HasFencedBlock(rawText)
    /\ IndexOf(rawText, <<"{">>) > 1
    /\ Includes(rawText, Chars("\\\"}\\\" {"))
    /\ \E e \in ObjectEnds(rawText, IndexOf(rawText, <<"{">>)) :
          /\ e < Len(rawText)
          /\ Includes(SubstringFrom(rawText, e + 1), <<"}">>)
          /\ recovered.candidate = SubSeq(rawText, IndexOf(rawText, <<"{">>), e)


\* C13: when the text has a "{" whose matching "}" is not found, the candidate
\* is the text from the first "{" to the last "}", and with no "}" after the
\* first "{" the text from the first "{" to the end, never the whole text.
C13_UnmatchedBraceFallsBack ==
    Recovered /\ ~Includes(rawText, Fence) /\ IndexOf(rawText, <<"{">>) # 0
              /\ MatchingBrace(rawText, IndexOf(rawText, <<"{">>)) = 0 =>
        recovered.candidate =
            IF LastIndexOf(rawText, <<"}">>) > IndexOf(rawText, <<"{">>)
            THEN SubSeq(rawText, IndexOf(rawText, <<"{">>), LastIndexOf(rawText, <<"}">>))
            ELSE SubstringFrom(rawText, IndexOf(rawText, <<"{">>))


\* the value of the property name of the object val
Member(val, name) == val.v[CHOOSE j \in 1..Len(val.v) : val.v[j].k = name].val

HasMember(val, name) == val.t = "obj" /\ \E j \in 1..Len(val.v) : val.v[j].k = name

\* analysis texts with an unescaped backslash in front of a LaTeX command
LatexTexts == {Chars("x = \\frac{1}{2}"), Chars("\\alpha")}

\* C14: for an input whose analysis string holds an unescaped backslash in
\* front of a LaTeX command, the OpenAI pipeline returns an object whose
\* analysis holds the backslash followed by the letters of the command.
C14_LatexBackslashKept ==
    \A a \in LatexTexts :
        Recovered /\ recovered.provider = "openai" /\ rawText = QuestionWith(a) =>
            /\ recovered.outcome.ok
            /\ HasMember(recovered.outcome.v, Chars("analysis"))
            /\ Member(recovered.outcome.v, Chars("analysis")) = JStr(a)


\* analysis texts with a literal line break inside the string
MultilineTexts == {Chars("l1\nl2"), Chars("l1\r\nl2")}

ManualStages == <<"direct", "repair", "manual">>

\* C15: the manual normalisation turns every literal newline and carriage
\* return inside a string literal into its escaped form, so that none is lost
\* from the string's value, and it changes backslashes only inside string
\* literals (a candidate without any quote comes out as it went in).
C15_ManualKeepsLineBreaks ==
    Recovered /\ recovered.provider = "openai" /\ recovered.outcome.stages = ManualStages =>
        /\ \A a \in MultilineTexts :
              rawText = QuestionWith(a) =>
                  /\ recovered.outcome.ok
                  /\ Member(recovered.outcome.v, Chars("analysis")) = JStr(a)
        /\ ~Includes(recovered.candidate, <<"\"">>) =>
              EscapeBackslashes(cleanJson(recovered.candidate)) = recovered.candidate


\* C16: whenever the recovery pipeline succeeds, the returned knowledgePoints
\* is a sequence of strings with at most 5 entries.
C16_KnowledgePointsConform ==
    Recovered /\ recovered.outcome.ok =>
        /\ HasMember(recovered.outcome.v, Chars("knowledgePoints"))
        /\ Member(recovered.outcome.v, Chars("knowledgePoints")).t = "arr"
        /\ Len(Member(recovered.outcome.v, Chars("knowledgePoints")).v) <= 5
        /\ \A j \in 1..Len(Member(recovered.outcome.v, Chars("knowledgePoints")).v) :
              Member(recovered.outcome.v, Chars("knowledgePoints")).v[j].t = "str"


Issued(p) == {c \in CallIds : calls[c].provider = p}

\* C17: every invocation of analyzeImage or generateSimilarQuestion issues
\* exactly one vendor network call; the call is not repeated after a network
\* failure, an empty response or a recovery failure, and a failure reaches the
\* caller classified.
C17_OneVendorCallPerInvocation ==
    /\ \A p \in Providers : netCalls[p] = Cardinality(Issued(p))
    /\ \A c \in CallIds :
          Done(c) /\ ~calls[c].outcome.ok => calls[c].outcome.error.message \in ErrorTags

C17_Witness ==
    \E p \in Providers :
        /\ Issued(p) = CallIds
        /\ netCalls[p] = MaxCalls
        /\ \E c \in CallIds :
              /\ Done(c) /\ calls[c].vendor.kind = "threw"
              /\ calls[c].outcome.error = Error(AI_CONNECTION_FAILED)
        /\ \E c \in CallIds :
              /\ Done(c) /\ calls[c].vendor.kind = "text" /\ ~calls[c].outcome.ok


\* C18: a missing API key at construction reaches the caller as
\* AI_AUTH_ERROR, both as the constructor throws it and as the adapter's error
\* classification maps it.
C18_MissingKeyIsAuthError ==
    \A p \in Providers :
        adapters[p].status = "failed" =>
            /\ adapters[p].error = Error(AI_AUTH_ERROR)
            /\ CatchBlock(p, adapters[p].error) = Error(AI_AUTH_ERROR)


\* what an invocation on adapter p returns or throws when run alone on vendor
Alone(p, vendor) == {s.out : s \in {x \in Settlements[p] : x.vendor = vendor}}

C19_OutcomeAsAlone ==
    \A c \in CallIds : Done(c) => calls[c].outcome \in Alone(calls[c].provider, calls[c].vendor)

C19_AdapterUntouched ==
    \A p \in Providers : adapters[p].status = "live" => adapters'[p] = adapters[p]

\* C19: under any interleaving of invocations on one adapter, each
\* invocation's outcome is the one it has when run alone on its own vendor
\* response, and no invocation changes the adapter's client, model or
\* configuration.
C19_NoCrossCallInterference == []C19_OutcomeAsAlone /\ [][C19_AdapterUntouched]_vars

C19_Witness ==
    \E p \in Providers, c \in CallIds, d \in CallIds :
        /\ c # d /\ calls[c].provider = p /\ calls[d].provider = p
        /\ Done(c) /\ Done(d)
        /\ calls[c].op = "analyzeImage" /\ calls[d].op = "generateSimilarQuestion"
        /\ calls[c].outcome.ok /\ ~calls[d].outcome.ok
        /\ calls[d].outcome.logged /\ debugLog > 0

\* the alert the four tags call for, the first of the tags found in the error
\* text deciding
TaggedMessage(errorText, language, aiAuth) ==
    CASE Includes(errorText, Chars("AI_CONNECTION_FAILED")) -> ConnectionMessage(language)
      [] /\ ~Includes(errorText, Chars("AI_CONNECTION_FAILED"))
         /\ Includes(errorText, Chars("AI_RESPONSE_ERROR")) -> InvalidResponseMessage(language)
      [] /\ ~Includes(errorText, Chars("AI_CONNECTION_FAILED"))
         /\ ~Includes(errorText, Chars("AI_RESPONSE_ERROR"))
         /\ Includes(errorText, Chars("AI_AUTH_ERROR")) -> AuthMessage(language, aiAuth)
      [] OTHER -> AnalysisFailedMessage(language)

FailedRuns(p) == {r \in 1..Len(p.runs) : p.runs[r].pc = "failed"}

\* the alerts of the page that handleSave did not show
AnalysisAlerts(p) ==
    SelectSeq(p.alerts, LAMBDA m : m \notin {SavedMessage(p.language), SaveFailedMessage(p.language)})

\* every failed run alerted once, the message its error text calls for, and
\* no analysis alerted for anything else
C20_OneAlertByTag ==
    /\ \A r \in FailedRuns(page) :
           page.runs[r].alerted
               = <<TaggedMessage(ErrorText(page.runs[r].error), page.language, page.aiAuth)>>
    /\ Len(AnalysisAlerts(page)) = Cardinality(FailedRuns(page))

\* the step in which a run fails shows that run's alert and leaves step and
\* parsedData as they were
C20_FailureKeepsPage ==
    \A r \in FailedRuns(page') \ FailedRuns(page) :
        /\ page'.step = page.step
        /\ page'.parsedData = page.parsedData
        /\ page'.alerts = page.alerts \o page'.runs[r].alerted

\* C20: a failed handleAnalyze run shows exactly one alert, the connection
\* message if the error text contains AI_CONNECTION_FAILED, otherwise the
\* invalid-response message if it contains AI_RESPONSE_ERROR, otherwise the
\* auth message if it contains AI_AUTH_ERROR, otherwise the generic message;
\* the failure leaves the page on the step it was on (the upload step for a
\* run that started there and met no other run's result) and leaves
\* parsedData unchanged.
C20_FailureAlertsOnceByTag == []C20_OneAlertByTag /\ [][C20_FailureKeepsPage]_vars

\* a run has failed on an error text that holds two tags, after an earlier
\* run had stored its result, and the page is on the upload step
C20_Witness ==
    /\ page.mounted
    /\ page.step = "upload"
    /\ page.parsedData # JNull
    /\ \E r \in FailedRuns(page) :
           /\ Includes(ErrorText(page.runs[r].error), Chars("AI_AUTH_ERROR"))
           /\ Includes(ErrorText(page.runs[r].error), Chars("AI_CONNECTION_FAILED"))
           /\ page.runs[r].alerted = <<ConnectionMessage(page.language)>>


\* the tag the precedence connection > JSON/parse > auth gives a description
TagByPrecedence(description) ==
    CASE Mentions(description, ConnectionKeywords) -> AI_CONNECTION_FAILED
      [] /\ ~Mentions(description, ConnectionKeywords)
         /\ Mentions(description, ParseKeywords) -> AI_RESPONSE_ERROR
      [] /\ ~Mentions(description, ConnectionKeywords \cup ParseKeywords)
         /\ Mentions(description, AuthKeywords) -> AI_AUTH_ERROR
      [] OTHER -> AI_UNKNOWN_ERROR

\* C21 as stated: the tag follows the precedence connection > JSON/parse >
\* auth, it is the same for every failure with the same lower-cased
\* description, and both adapters give it.
C21_Original ==
    Classified =>
        /\ Mentions(failure.message, ConnectionKeywords \cup ParseKeywords \cup AuthKeywords)
              => Tag = TagByPrecedence(failure.message)
        /\ \A f \in Failures :
              ToLowerCase(f.message) = ToLowerCase(failure.message)
                  => CatchBlock(thrown.provider, f).message = Tag
        /\ \A p \in Providers : CatchBlock(p, failure).message = Tag

\* C21 amended: for a failure that is an Error object the tag follows the
\* precedence connection > JSON/parse > auth and is the same for every Error
\* with the same lower-cased message; a thrown value that is no Error object
\* is AI_UNKNOWN_ERROR whatever its text; both adapters give the same tag to
\* the same failure.
C21_Amended ==
    Classified =>
        /\ IF failure.isError
           THEN /\ Tag = TagByPrecedence(failure.message)
                /\ \A f \in Failures :
                      f.isError /\ ToLowerCase(f.message) = ToLowerCase(failure.message)
                          => CatchBlock(thrown.provider, f).message = Tag
           ELSE Tag = AI_UNKNOWN_ERROR
        /\ \A p \in Providers : CatchBlock(p, failure).message = Tag

\* an Error whose message is not in lower case and mentions a JSON/parse
\* keyword and an auth keyword has been classified as a response error
C21_Witness ==
    /\ Classified
    /\ failure.isError
    /\ failure.message # ToLowerCase(failure.message)
    /\ Mentions(failure.message, ParseKeywords)
    /\ Mentions(failure.message, AuthKeywords)
    /\ Tag = AI_RESPONSE_ERROR


\* the manual stage's text: cleanJson, then the backslash-escaping replace
ManualNormalized(jsonString) == EscapeBackslashes(cleanJson(jsonString))

\* C22: the OpenAI manual normalization leaves a candidate whose escape
\* sequences are all valid (a candidate JSON.parse accepts) as it is, and
\* applying it twice to a candidate gives the text that applying it once gives.
C22_ManualNormalizationStable ==
    (recovered.st = "done" /\ recovered.provider = "openai") =>
        /\ JSONParse(recovered.candidate).ok
              => ManualNormalized(recovered.candidate) = recovered.candidate
        /\ ManualNormalized(ManualNormalized(recovered.candidate))
              = ManualNormalized(recovered.candidate)


\* the runs whose post was answered with a response that is not ok
AnsweredNotOk(p) ==
    {r \in 1..Len(p.runs) :
        /\ p.runs[r].response # NoResponse
        /\ ~p.runs[r].response.failed
        /\ ~p.runs[r].response.ok}

\* the reads of its body a response permits
PermittedReads(res) == IF res.nullBody THEN 2 ELSE 1

\* C23: for every response that is not ok, whatever its body, the call
\* rejects with an ApiError that carries the response's status and statusText
\* (it never resolves with a value), and the body is read no more often than
\* the response permits.
C23_NotOkRejectsWithApiError ==
    page.mounted =>
        \A r \in AnsweredNotOk(page) :
            /\ page.runs[r].pc = "failed"
            /\ page.runs[r].error.name = "ApiError"
            /\ page.runs[r].error.message
                   = Chars("API Error: ") \o page.runs[r].response.status \o <<" ">>
                         \o page.runs[r].response.statusText
            /\ BodyReads(page.runs[r].response) <= PermittedReads(page.runs[r].response)


FinishedRuns(p) == {r \in 1..Len(p.runs) : p.runs[r].pc \in {"review", "failed"}}

\* the step in which a run finishes leaves analysisStep 'idle'
C24_FinishIsIdle ==
    FinishedRuns(page') # FinishedRuns(page) => page'.analysisStep = "idle"

\* an interval is set only by a progress effect that ran for a step other
\* than 'idle'
C24_TimerOfBusyEffect == page.timer => page.effectStep # "idle"

\* C24: the step in which a handleAnalyze run finishes (with a result, or
\* failing at compression, at the API call or while processing the result)
\* leaves analysisStep 'idle'; where the image processing and the API call
\* settle, an analysisStep other than 'idle' leads to 'idle'; and no progress
\* timer remains while analysisStep is 'idle': the interval belongs to a
\* progress effect that ran for a busy step, and the effect that follows the
\* render with 'idle' clears it.
C24_ProgressReturnsToIdle ==
    /\ [][C24_FinishIsIdle]_vars
    /\ []C24_TimerOfBusyEffect
    /\ (page.analysisStep # "idle") ~> (page.analysisStep = "idle")
    /\ (page.analysisStep = "idle" /\ page.timer) ~> (page.analysisStep # "idle" \/ ~page.timer)

\* one run has failed while its result was processed, another has stored its
\* result, and the page is idle with the progress effect run and no timer
C24_Witness ==
    /\ page.mounted
    /\ \E r \in 1..Len(page.runs) :
           page.runs[r].pc = "failed" /\ page.runs[r].response.ok
    /\ \E r \in 1..Len(page.runs) : page.runs[r].pc = "review"
    /\ page.analysisStep = "idle"
    /\ page.effectStep = "idle"
    /\ ~page.timer
    /\ page.progress = "100"


\* on the review step the page holds an analysis result
C25_ReviewHasData == page.step = "review" => page.parsedData \notin {JNull, JUndefined}

\* step becomes 'review' only in the step in which a run stores the data its
\* post resolved with
C25_ReviewWithResult ==
    (page.step # "review" /\ page'.step = "review") =>
        \E r \in 1..Len(page.runs) :
            /\ page.runs[r].pc = "analyzing"
            /\ page'.runs[r].pc = "review"
            /\ ~request(page'.runs[r].response).threw
            /\ page'.parsedData = request(page'.runs[r].response).value

\* the step in which a save succeeds leaves step 'upload', parsedData null and
\* currentImage null
C25_SaveResets ==
    \A s \in 1..Len(page.saves) :
        (page.saves[s].pc # "saved" /\ page'.saves[s].pc = "saved") =>
            /\ page'.step = "upload"
            /\ page'.parsedData = JNull
            /\ page'.currentImage = JNull

\* C25: under every interleaving of analyses, save, cancel and the 'upload
\* new' button, step = 'review' implies that parsedData is not null; step
\* becomes 'review' only in the update that stores a successful analysis
\* result; a successful save sets step to 'upload', parsedData to null and
\* currentImage to null in one update.
C25_ReviewInvariant ==
    /\ []C25_ReviewHasData
    /\ [][C25_ReviewWithResult]_vars
    /\ [][C25_SaveResets]_vars

\* a save issued for the first result has succeeded after a second analysis
\* had stored its result: the page is back on the upload step with no data
C25_Witness ==
    /\ page.mounted
    /\ Cardinality({r \in 1..Len(page.runs) : page.runs[r].pc = "review"}) = 2
    /\ \E s \in 1..Len(page.saves) : page.saves[s].pc = "saved"
    /\ page.step = "upload"
    /\ page.parsedData = JNull
    /\ page.currentImage = JNull

\* the runs of the seed script that have ended
FinishedSeedRuns(s) ==
    {i \in 1..Len(s.runs) : i < Len(s.runs) \/ s.pc = "exited"}

AdminsOf(users) == {u \in users : u.email = AdminEmail}

\* no row is added or removed, the rows of other users are untouched, and
\* the admin row keeps its password, name, role and isActive
OnlyDefaultsChanged(before, after) ==
    /\ Cardinality(after) = Cardinality(before)
    /\ \A u \in before :
           \E v \in after :
               /\ v.email = u.email
               /\ v.password = u.password
               /\ v.name = u.name
               /\ v.role = u.role
               /\ v.isActive = u.isActive
               /\ (u.email # AdminEmail => v = u)

\* C26: a run of main that finds a user admin@localhost creates no user and
\* changes only that user's educationStage and enrollmentYear (password,
\* name, role and isActive are kept); after every run of a sequence there is
\* exactly one admin@localhost user, and every run after the first leaves
\* the table as the run before it left it.
C26_SeedIsIdempotent ==
    seed.started =>
        \A i \in FinishedSeedRuns(seed) :
            LET Run(run) ==
                    /\ run.code = 0
                    /\ Cardinality(AdminsOf(run.after)) = 1
                    /\ \A u \in AdminsOf(run.after) :
                           u.educationStage = "junior_high" /\ u.enrollmentYear = 2025
                    /\ (AdminsOf(run.before) # {} => OnlyDefaultsChanged(run.before, run.after))
                    /\ (i > 1 => run.after = run.before /\ run.before = seed.runs[i - 1].after)
            IN  Run(seed.runs[i])

\* C26 witness: two runs have ended; the first found an admin row that is no
\* active admin named Admin and changed its defaults, next to another user
C26_Witness ==
    /\ seed.started
    /\ seed.pc = "exited"
    /\ Len(seed.runs) = 2
    /\ \E u \in AdminsOf(seed.runs[1].before) :
           /\ u.role = "user"
           /\ u.name = "Root"
           /\ ~u.isActive
           /\ u.educationStage = "senior_high"
           /\ u.enrollmentYear = 2023
    /\ Cardinality(seed.runs[1].before) = 2
    /\ seed.runs[1].after # seed.runs[1].before
    /\ seed.users = seed.runs[2].after

\* the first fenced block of s: from its first fence, past the tag json, to
\* the next fence
FirstBlock(s) ==
    LET Interior(i, j) ==
            [complete |-> i # 0 /\ IndexOfFrom(s, Fence, i + 3) # 0,
             interior |-> IF i # 0 /\ IndexOfFrom(s, Fence, i + 3) # 0
                          THEN SubSeq(s, j, IndexOfFrom(s, Fence, j) - 1)
                          ELSE <<>>]
        Opening(i) == Interior(i, IF MatchesAt(s, i + 3, JsonTag) THEN i + 7 ELSE i + 3)
    IN  Opening(IndexOf(s, Fence))

\* C27: for a raw text with a complete fenced block (an opening fence and a
\* later closing fence) the extractJson of both adapters return the same
\* candidate, the trimmed interior of the first fenced block, whole: no
\* brace scanning is applied to it.
C27_FencedCandidateSame ==
    (Recovered /\ FirstBlock(rawText).complete) =>
        /\ recovered.candidate = Trim(FirstBlock(rawText).interior)
        /\ OpenAIExtractJson(rawText) = Trim(FirstBlock(rawText).interior)
        /\ GeminiExtractJson(rawText) = Trim(FirstBlock(rawText).interior)

\* C27 witness: the Gemini adapter recovered a text with white space before
\* the fence and a block whose interior holds more than its braces enclose
C27_Witness ==
    /\ Recovered
    /\ recovered.provider = "gemini"
    /\ FirstBlock(rawText).complete
    /\ IsSpace(rawText[1])
    /\ recovered.candidate # <<>>
    /\ recovered.candidate[1] = "["
    /\ Includes(recovered.candidate, <<"{">>)
    /\ rawText # Trim(rawText)
    /\ OpenAIExtractJson(rawText) = recovered.candidate

====
